---- MODULE Spec2Model ----
(***************************************************************************)
(* Model of the task orchestration state machine of the mobile automation  *)
(* agent (src/src/agent/orchestrator.py) and of the device tap primitive   *)
(* (src/src/device/actions.py).                                            *)
(*                                                                         *)
(* An utterance is a sequence of lower-case words.  The device, the        *)
(* description service, the decision model and the user are the            *)
(* environment: every value the code reads from them is chosen with \E.    *)
(***************************************************************************)
EXTENDS Integers, Sequences, FiniteSets, TLC

VARIABLES
    pc,                  \* node of the workflow about to run; "returned" after process_command, "idle" while listening
    st,                  \* the workflow state dict threaded through the nodes
    query_app_session,   \* AgentOrchestrator._query_app_session ("none" for None)
    login_flow_state,    \* AgentOrchestrator.login_flow_state
    steps,               \* nodes executed so far by workflow.invoke in this run
    call,                \* what the last/current process_command call was given and how it ended
    fx,                  \* device and speech effects of the current process_command call
    current_task,        \* AgentStateManager.current_task: the user_intent of the record (NoWords for None)
    tapIn,               \* DeviceActions.tap: the requested point ("none" outside the tap model);
                         \* _confirm_action: the button and the clickable elements it is given
    tapOut,              \* DeviceActions.tap: what was sent to the device and what was returned;
                         \* _confirm_action: its tap calls and what it wrote to the workflow state
    api,                 \* api_server: agent_lock, the requests in flight and the device's log
    retry,               \* ErrorRecovery.retry_with_backoff: one call, its attempts and its sleeps;
                         \* _perform_llm_guided_login: the wait attempts before the step loop
    sheet,               \* AccessibilityTree: the dump, the scan and the result of one search
    coords,              \* a point given to map_vision_to_device_coords or _validate_coordinates
    send                 \* _execute_query from the input field to the send button: fetches and actions

\* the variables of the units modelled apart from the workflow
units == <<tapIn, tapOut, api, retry, sheet, coords, send>>

vars == <<pc, st, query_app_session, login_flow_state, steps, call, fx, current_task, units>>

-----------------------------------------------------------------------------
(* Program constants *)

maxIterations == 5
RecursionLimit == 25
max_steps == 10
SCREEN_WIDTH == 1080
SCREEN_HEIGHT == 2400

(* Bound of the tap model: how far outside the screen a requested point may lie *)
MaxOver == 2

(* Bounds of the API server model: the requests submitted, and the device actions one *)
(* process_command call makes                                                       *)
NumRequests == 3
MaxDeviceSteps == 2

(* Bounds of the retry model: the largest max_retries and the largest retry_delay (seconds) *)
MaxRetries == 4
MaxDelay == 3

(* Bound of the bottom-sheet model: the largest number of nodes in a dump *)
MaxNodes == 2

(* find_real_login_button keeps an element when width > MinWidth and height > MinHeight *)
MinWidth == 300
MinHeight == 80

(* Bound of the coordinate models: the largest coordinate of a vision point *)
MaxPoint == 11

(* _validate_coordinates rejects y below STATUS_BAR_MAX *)
STATUS_BAR_MAX == 100

-----------------------------------------------------------------------------
(* Words and utterances *)

NoWords == << >>

\* Python's "k in w" for a vocabulary word w and a keyword k other than w itself
Infix == {<<"chatgpt", "gpt">>, <<"email", "mail">>, <<"gmail", "mail">>,
          <<"paytm", "pay">>, <<"whatsapp", "app">>}
WordHas(w, k) == w = k \/ <<w, k>> \in Infix
\* "k in text" for a keyword without spaces
Mentions(u, k) == \E i \in 1..Len(u) : WordHas(u[i], k)
MentionsAny(u, ks) == \E k \in ks : Mentions(u, k)

Has(u, w) == \E i \in 1..Len(u) : u[i] = w

HasAny(u, ws) == \E w \in ws : Has(u, w)

HasPhrase(u, p) ==
    \E i \in 1..(Len(u) - Len(p) + 1) : SubSeq(u, i, i + Len(p) - 1) = p

HasAnyPhrase(u, ps) == \E p \in ps : HasPhrase(u, p)

\* index of the first occurrence of w in u, 0 when absent
IndexOf(u, w) ==
    IF Has(u, w) THEN CHOOSE i \in 1..Len(u) : u[i] = w /\ \A j \in 1..(i-1) : u[j] # w
    ELSE 0

\* the words after position i
After(u, i) == SubSeq(u, i + 1, Len(u))

\* number of characters of the utterance as a string: words joined by single spaces
RECURSIVE CharLen(_)
CharLen(u) ==
    IF u = NoWords THEN 0
    ELSE Len(Head(u)) + (IF Len(u) > 1 THEN 1 ELSE 0) + CharLen(Tail(u))

EmailWords == {"bob@example.com"}
NumberWords == {"10"}

Utterances == {
    <<"open", "chatgpt">>,
    <<"open", "chatgpt", "and", "ask", "what", "is", "tla">>,
    <<"open", "gmail">>,
    <<"open", "tla", "and", "login">>,
    <<"login">>,
    <<"tap", "on", "submit">>,
    <<"search">>,
    <<"close", "app">>,
    <<"exit">>,
    <<"exit", "the", "login", "page">>,
    <<"what", "is", "the", "weather">>,
    <<"my", "email", "is", "bob@example.com">>,
    <<"hunter22">>,
    <<"yes">>,
    <<"open", "whatsapp", "and", "send", "message", "to", "mom", "say", "hi">>,
    <<"open", "paytm", "and", "pay", "10", "rupees", "to", "bob">>,
    <<"pay", "bob", "on", "paytm">>
}

-----------------------------------------------------------------------------
(* _parse_intent *)

NoIntent ==
    [action |-> "none", app |-> NoWords, query |-> NoWords, recipient |-> NoWords,
     message |-> NoWords, amount |-> "none", wants_login |-> FALSE,
     send_to_current_chat |-> FALSE]

\* first index of w with a word before it and a word after it (" w " in the text), or 0
InnerIndexOf(u, w) ==
    LET S == {i \in 2..(Len(u) - 1) : u[i] = w}
    IN  IF S = {} THEN 0 ELSE CHOOSE i \in S : \A j \in S : i <= j

MinOf(S) == CHOOSE i \in S : \A j \in S : i <= j

\* the first k words of u that are not skipped, up to the first stop word
RECURSIVE TakeUntil(_, _, _)
TakeUntil(u, stop, skip) ==
    IF u = NoWords \/ Head(u) \in stop THEN NoWords
    ELSE IF Head(u) \in skip THEN TakeUntil(Tail(u), stop, skip)
    ELSE <<Head(u)>> \o TakeUntil(Tail(u), stop, skip)

WhatsAppMarkers == <<<<"say">>, <<"saying">>, <<"tell">>, <<"with", "message">>, <<"message">>>>

\* first index of phrase p with a word before it and a word after it, or 0
InnerPhraseIndex(u, p) ==
    LET S == {i \in 2..(Len(u) - Len(p)) : SubSeq(u, i, i + Len(p) - 1) = p}
    IN  IF S = {} THEN 0 ELSE CHOOSE i \in S : \A j \in S : i <= j

ParseWhatsApp(u) ==
    LET to == InnerIndexOf(u, "to")
        after_to == IF to > 0 THEN After(u, to) ELSE NoWords
        found == {k \in 1..Len(WhatsAppMarkers) : InnerPhraseIndex(after_to, WhatsAppMarkers[k]) > 0}
        mk == IF found = {} THEN NoWords ELSE WhatsAppMarkers[MinOf(found)]
        m == IF found = {} THEN 0 ELSE InnerPhraseIndex(after_to, mk)
        recipient1 == IF to = 0 THEN NoWords
                      ELSE IF m > 0 THEN SubSeq(after_to, 1, m - 1)
                      ELSE SubSeq(after_to, 1, 1)
        message1 == IF to > 0 /\ m > 0 THEN After(after_to, m + Len(mk) - 1) ELSE NoWords
        \* pattern 2: "message [to] name [say|saying] text"
        am0 == IF Mentions(u, "message")
               THEN After(u, MinOf({i \in 1..Len(u) : WordHas(u[i], "message")}))
               ELSE NoWords
        am == IF Len(am0) > 1 /\ am0[1] = "to" THEN Tail(am0) ELSE am0
        rest == IF am = NoWords THEN NoWords ELSE Tail(am)
        say == IF Has(SubSeq(rest, 1, Len(rest) - 1), "say") THEN IndexOf(rest, "say")
               ELSE IF Has(SubSeq(rest, 1, Len(rest) - 1), "saying") THEN IndexOf(rest, "saying")
               ELSE 0
        use2 == recipient1 = NoWords /\ am # NoWords
        recipient == IF use2 THEN SubSeq(am, 1, 1) ELSE recipient1
        message == IF use2
                   THEN (IF say > 0 THEN After(rest, say) ELSE rest)
                   ELSE message1
    IN  [NoIntent EXCEPT !.action = "send_whatsapp_message", !.app = <<"whatsapp">>,
                         !.recipient = recipient, !.message = message]

PaymentApps == {"paytm", "gpay", "phonepe", "bhim"}
PaymentKeywords == {"send", "pay", "transfer", "rupees", "rs", "inr", "money"}
CurrencyWords == {"rupees", "rupee", "rs", "inr"}

AmountOf(u) ==
    LET P1 == {i \in 1..(Len(u) - 1) : u[i] \in NumberWords /\ u[i+1] \in CurrencyWords}
        P2 == {i \in 2..Len(u) : u[i] \in NumberWords /\ u[i-1] \in CurrencyWords}
        P3 == {i \in 2..Len(u) : u[i] \in NumberWords /\ u[i-1] \in {"send", "pay", "transfer"}}
        P4 == {i \in 1..(Len(u) - 1) : u[i] \in NumberWords /\ u[i+1] \in {"to", "for"}}
    IN  IF P1 # {} THEN u[MinOf(P1)]
        ELSE IF P2 # {} THEN u[MinOf(P2)]
        ELSE IF P3 # {} THEN u[MinOf(P3)]
        ELSE IF P4 # {} THEN u[MinOf(P4)]
        ELSE "none"

\* recipient words after "to": leading articles skipped, cut at a stop word or a number
RECURSIVE PayeeWords(_, _)
PayeeWords(u, started) ==
    IF u = NoWords THEN NoWords
    ELSE IF Head(u) \in {"my", "the", "a", "an"} /\ ~started THEN PayeeWords(Tail(u), started)
    ELSE IF Head(u) \in {"on", "via", "using", "through", "and"} \cup PaymentApps \cup NumberWords
         THEN NoWords
    ELSE <<Head(u)>> \o PayeeWords(Tail(u), TRUE)

ParsePayment(u) ==
    LET to == InnerIndexOf(u, "to")
        app == IF Mentions(u, "paytm") THEN "paytm"
               ELSE IF Mentions(u, "gpay") \/ HasPhrase(u, <<"google", "pay">>) THEN "gpay"
               ELSE IF Mentions(u, "phonepe") \/ HasPhrase(u, <<"phone", "pe">>) THEN "phonepe"
               ELSE "bhim"
    IN  [NoIntent EXCEPT !.action = "send_payment", !.app = <<app>>,
                         !.amount = AmountOf(u),
                         !.recipient = IF to > 0 THEN PayeeWords(After(u, to), FALSE) ELSE NoWords]

CloseWords == {"close", "exit", "quit", "stop"}
AppKeywords == {"app", "application", "chatgpt", "gmail", "settings", "chrome", "youtube"}
TapPatterns == {<<"tap", "on">>, <<"click", "on">>, <<"press", "on">>, <<"touch", "on">>,
                <<"tap", "the">>, <<"click", "the">>, <<"press", "the">>, <<"touch", "the">>}
OpenCommandWords == {"and", "then", "to", "for", "ask", "search", "find", "login", "sign"}
OpenFillerWords == {"you", "pretty", "please", "the", "a", "an", "very", "so"}

\* text.split(p, 1)[1].strip() for a phrase p of whole words
AfterPhrase(u, p) ==
    LET S == {i \in 1..(Len(u) - Len(p) + 1) : SubSeq(u, i, i + Len(p) - 1) = p}
    IN  After(u, MinOf(S) + Len(p) - 1)

\* text.split(k, 1)[1].strip() for a keyword k: the words after the first word holding k
AfterWord(u, k) == After(u, MinOf({i \in 1..Len(u) : WordHas(u[i], k)}))

\* the query of "... tell me X" / "... tell X" / "... ask X" / "... search X"
StripMe(q) == IF Len(q) > 1 /\ q[1] = "me" THEN Tail(q) ELSE q

IsWhatsAppCommand(u) ==
    Mentions(u, "whatsapp") /\ (Mentions(u, "send") \/ Mentions(u, "message"))

IsPaymentCommand(u) ==
    /\ MentionsAny(u, PaymentApps) \/ HasAnyPhrase(u, {<<"google", "pay">>, <<"phone", "pe">>})
    /\ MentionsAny(u, PaymentKeywords)

IsCloseCommand(u) == MentionsAny(u, CloseWords) /\ MentionsAny(u, AppKeywords)

IsTapCommand(u) == HasAnyPhrase(u, TapPatterns) /\ ~Mentions(u, "open")

\* the tap branch uses the module re, which "import re" in the payment branch makes a
\* local of _parse_intent: the branch always raises UnboundLocalError
ParseRaises(u) ==
    ~IsWhatsAppCommand(u) /\ ~IsPaymentCommand(u) /\ ~IsCloseCommand(u) /\ IsTapCommand(u)

\* the "open" branch: [intent, returned]
ParseOpen(u) ==
    LET idx == IndexOf(u, "open")
        rest == After(u, idx)
        app_words == TakeUntil(rest, OpenCommandWords, OpenFillerWords)
        and_idx == IF Has(rest, "and") THEN idx + IndexOf(rest, "and") ELSE 0
        remaining == IF and_idx > 0 THEN After(u, and_idx)
                     ELSE After(u, idx + Len(app_words))
        base == [NoIntent EXCEPT !.action = "open_app", !.app = app_words]
    IN  IF ~Has(u, "open") \/ app_words = NoWords THEN [intent |-> base, returned |-> FALSE]
        ELSE IF HasPhrase(remaining, <<"tell", "me">>)
             THEN [intent |-> [base EXCEPT !.query = AfterPhrase(remaining, <<"tell", "me">>)],
                   returned |-> FALSE]
        ELSE IF Mentions(remaining, "ask")
             THEN [intent |-> [base EXCEPT !.query = AfterWord(remaining, "ask")],
                   returned |-> FALSE]
        ELSE IF Mentions(remaining, "search")
             THEN [intent |-> [base EXCEPT !.query = AfterWord(remaining, "search")],
                   returned |-> FALSE]
        ELSE IF Mentions(remaining, "tell")
             THEN [intent |-> [base EXCEPT !.query = StripMe(AfterWord(remaining, "tell"))],
                   returned |-> FALSE]
        ELSE IF Mentions(remaining, "login") \/ HasPhrase(remaining, <<"sign", "in">>)
             THEN [intent |-> [base EXCEPT !.wants_login = TRUE], returned |-> TRUE]
        ELSE [intent |-> base, returned |-> FALSE]

\* what follows the "open" branch: standalone login, standalone query, extract
ParseTail(u, i0) ==
    LET isLogin == /\ i0.action # "open_app"
                   /\ \/ MentionsAny(u, {"login", "authenticate"})
                      \/ HasAnyPhrase(u, {<<"sign", "in">>, <<"log", "in">>})
        wantsQuery == i0.query = NoWords /\ MentionsAny(u, {"search", "ask", "query", "tell"})
        i1 == IF ~wantsQuery THEN i0
              ELSE LET a == IF i0.action # "open_app" THEN "query" ELSE i0.action
                       q == IF HasPhrase(u, <<"tell", "me">>) THEN AfterPhrase(u, <<"tell", "me">>)
                            ELSE IF Mentions(u, "tell") THEN StripMe(AfterWord(u, "tell"))
                            ELSE IF Mentions(u, "ask") THEN AfterWord(u, "ask")
                            ELSE IF Mentions(u, "search") THEN AfterWord(u, "search")
                            ELSE i0.query
                   IN  [i0 EXCEPT !.action = a, !.query = q]
        isExtract == Mentions(u, "extract") \/ (MentionsAny(u, {"get", "find"}) /\ i1.action = "none")
    IN  IF isLogin THEN [i0 EXCEPT !.action = "login"]
        ELSE IF isExtract /\ i1.action = "none" THEN [i1 EXCEPT !.action = "extract"]
        ELSE i1

ParseIntent(u) ==
    IF IsWhatsAppCommand(u) THEN ParseWhatsApp(u)
    ELSE IF IsPaymentCommand(u) THEN ParsePayment(u)
    ELSE IF IsCloseCommand(u) THEN [NoIntent EXCEPT !.action = "close_app"]
    ELSE IF Mentions(u, "open")
         THEN LET o == ParseOpen(u)
              IN  IF o.returned THEN o.intent ELSE ParseTail(u, o.intent)
    ELSE ParseTail(u, NoIntent)

-----------------------------------------------------------------------------
(* the classifiers process_command applies to an utterance before any workflow runs *)

\* re.sub(r'[^\w\s]', ' ', text).split(): punctuation splits a word
CleanWord(w) == IF w = "bob@example.com" THEN <<"bob", "example", "com">> ELSE <<w>>
RECURSIVE CleanWords(_)
CleanWords(u) == IF u = NoWords THEN NoWords ELSE CleanWord(Head(u)) \o CleanWords(Tail(u))
WordSet(u) == {u[i] : i \in 1..Len(u)}

ConfirmationPhrases ==
    {<<"log", "in">>, <<"sign", "in">>, <<"go", "ahead">>, <<"do", "it">>}
ConfirmationKeywords ==
    {"login", "signin", "yes", "yeah", "yep", "yup", "okay", "ok", "sure", "alright",
     "proceed", "continue"}
ConfirmationWords == {"yes", "okay", "ok", "sure", "proceed", "continue", "go"}

IsLoginConfirmation(u) ==
    LET words == CleanWords(u)
    IN  \/ HasAnyPhrase(u, ConfirmationPhrases)
        \/ MentionsAny(u, ConfirmationKeywords)
        \/ HasAny(words, ConfirmationWords) /\ Len(words) <= 3
        \/ Has(words, "log") /\ Has(words, "in")
        \/ Has(words, "login") /\ Len(words) <= 3

\* Python's w.startswith(k) for a vocabulary word w and a keyword k other than w itself
Prefix == {<<"paytm", "pay">>}
WordStarts(w, k) == w = k \/ <<w, k>> \in Prefix
IsPlainWord(w) == w \notin EmailWords

OpenVerbs == {"send", "message", "pay", "transfer", "ask", "tell", "search", "find", "tap", "click"}
OpenApps == {"whatsapp", "paytm", "gmail", "chatgpt", "chrome", "youtube", "settings", "phone",
             "camera"}
NoiseKeywords == {"unfortunately", "oops", "hmm", "umm", "uh", "ah", "err", "sorry", "pardon",
                  "interesting", "wait"}
NoisePhrases ==
    {<<"didn't", "work">>, <<"that", "didn't">>, <<"not", "working">>, <<"it", "failed">>,
     <<"oh", "no">>, <<"let", "me", "think">>, <<"i", "don't", "know">>, <<"i'm", "not", "sure">>,
     <<"maybe", "later">>, <<"never", "mind">>, <<"forget", "it">>, <<"what", "was", "that">>,
     <<"excuse", "me">>, <<"i", "see">>, <<"that's", "nice">>, <<"that's", "good">>,
     <<"that's", "bad">>, <<"too", "bad">>, <<"oh", "well">>, <<"hold", "on">>,
     <<"one", "moment">>, <<"just", "a", "second">>, <<"let", "me", "see">>}
CommandKeywords ==
    {"open", "close", "launch", "start", "exit", "quit", "go", "navigate", "back", "home",
     "scroll", "tap", "click", "press", "touch", "select", "choose", "type", "enter", "input",
     "search", "find", "send", "message", "call", "email", "pay", "transfer", "rupees", "rs",
     "ask", "tell", "login", "authenticate", "whatsapp", "paytm", "gmail", "chatgpt", "chrome",
     "youtube", "settings"}
CommandPhrases ==
    {<<"send", "money">>, <<"what", "is">>, <<"how", "to">>, <<"show", "me">>, <<"log", "in">>,
     <<"sign", "in">>}
ActionVerbs ==
    {"tap", "click", "press", "touch", "select", "choose", "open", "close", "launch", "start",
     "search", "find", "tell", "ask", "extract", "get", "show", "display", "navigate", "go",
     "login", "authenticate", "type", "enter", "input", "send", "submit", "pay", "transfer",
     "message"}
UiElements == {"button", "login", "field", "input", "menu", "option", "link", "icon", "tab"}
UiPhrases == {<<"sign", "in">>, <<"text", "field">>, <<"search", "bar">>}
Greetings == {"hello", "hi", "hey", "greetings", "howdy", "sup", "hola", "bonjour"}
GreetingPhrases == {<<"good", "morning">>, <<"good", "afternoon">>, <<"good", "evening">>,
                    <<"what's", "up">>}
AgentQuestions ==
    {<<"who", "are", "you">>, <<"what", "are", "you">>, <<"what", "can", "you", "do">>,
     <<"help">>, <<"what", "can", "you", "help">>, <<"how", "are", "you">>,
     <<"how", "do", "you", "work">>, <<"what", "do", "you", "do">>}
Casual == {"thanks", "okay", "ok", "sure", "yes", "no", "maybe", "alright"}

HasActionVerb(u) == MentionsAny(u, ActionVerbs) \/ HasPhrase(u, <<"sign", "in">>)

\* the three "always a command" patterns at the head of _is_conversational
IsOpenCommandPattern(u) ==
    \/ \E i \in 1..(Len(u) - 2) :
          /\ u[i] = "open" /\ IsPlainWord(u[i+1])
          /\ \/ \E v \in OpenVerbs : WordStarts(u[i+2], v)
             \/ u[i+2] = "and" /\ i + 3 <= Len(u) /\ \E v \in OpenVerbs : WordStarts(u[i+3], v)
    \/ \E i \in 1..(Len(u) - 1) : u[i] = "open" /\ \E a \in OpenApps : WordStarts(u[i+1], a)
    \/ \E i \in 1..(Len(u) - 1) : u[i] = "message"

IsConversational(u) ==
    LET words == CleanWords(u)
    IN  IF IsOpenCommandPattern(u) THEN FALSE
        ELSE IF MentionsAny(u, NoiseKeywords) \/ HasAnyPhrase(u, NoisePhrases) THEN TRUE
        ELSE IF ~(MentionsAny(u, CommandKeywords) \/ HasAnyPhrase(u, CommandPhrases)) THEN TRUE
        ELSE IF HasActionVerb(u) THEN FALSE
        ELSE IF HasAnyPhrase(u, TapPatterns) THEN FALSE
        ELSE IF MentionsAny(u, UiElements) \/ HasAnyPhrase(u, UiPhrases) THEN FALSE
        ELSE IF MentionsAny(u, Greetings) \/ HasAnyPhrase(u, GreetingPhrases) THEN TRUE
        ELSE IF HasAny(words, Greetings) THEN TRUE
        ELSE IF HasAnyPhrase(u, AgentQuestions) THEN TRUE
        ELSE IF MentionsAny(u, Casual) THEN TRUE
        ELSE Cardinality(WordSet(words)) <= 3 /\ Len(words) <= 5

\* _extract_email_from_command: the first literal address in the command ("none" for None);
\* Utterances holds no spoken "at ... dot ..." form, so only the first pattern can match
ExtractEmail(u) ==
    LET S == {i \in 1..Len(u) : u[i] \in EmailWords}
    IN  IF S = {} THEN "none" ELSE u[MinOf(S)]

RECURSIVE DropWords(_, _)
DropWords(u, ws) ==
    IF u = NoWords THEN NoWords
    ELSE IF Head(u) \in ws THEN DropWords(Tail(u), ws)
    ELSE <<Head(u)>> \o DropWords(Tail(u), ws)

\* _extract_password_from_command: the password words (NoWords for None)
ExtractPassword(u) ==
    LET S == {i \in 1..(Len(u) - 1) : u[i] = "password"}
        said == IF S = {} THEN NoWords
                ELSE DropWords(After(u, MinOf(S)), {"is", "the", "password"})
    IN  IF said # NoWords THEN said
        ELSE IF CharLen(u) > 3 /\ ~MentionsAny(u, {"please", "say", "tell", "my"}) THEN u
        ELSE NoWords

CloseAppPhrases == {<<"close", "app">>, <<"close", "chatgpt">>, <<"close", "whatsapp">>,
                    <<"close", "the", "app">>}
IsCloseAppPhrase(u) == HasAnyPhrase(u, CloseAppPhrases)
IsClosePhrase(u) ==
    \/ IsCloseAppPhrase(u)
    \/ MentionsAny(u, {"exit", "stop"})
    \/ HasAnyPhrase(u, {<<"go", "back">>, <<"end", "session">>})

FollowUpMarkers == <<"say", "saying", "tell", "ask", "asking">>
FollowUpCommandWords ==
    {"open", "close", "search", "find", "go", "back", "home", "settings", "exit", "stop"}
NoFollowUp == [recipient |-> NoWords, message |-> NoWords, send_to_current_chat |-> FALSE]

\* _parse_whatsapp_follow_up_command, then the whole-command fallback of process_command
ParseWhatsAppFollowUp(u) ==
    LET P12 == {i \in 1..(Len(u) - 2) : u[i] = "message" /\ u[i+1] = "to"}
        P3 == {i \in 1..(Len(u) - 2) :
                  u[i] = "message" /\ IsPlainWord(u[i+1])
                  /\ \E m \in {"say", "saying", "tell", "ask"} : WordStarts(u[i+2], m)}
        at == IF P12 # {} THEN MinOf(P12) + 2 ELSE IF P3 # {} THEN MinOf(P3) + 1 ELSE 0
        recipient == IF at > 0 THEN <<CleanWord(u[at])[1]>> ELSE NoWords
        after == IF at > 0 THEN After(u, MinOf({i \in 1..Len(u) : u[i] = u[at]})) ELSE NoWords
        \* markers are tried in list order, each at its first occurrence
        MarkAt(k) == {i \in 1..(Len(after) - 1) : after[i] = FollowUpMarkers[k]}
        found == {k \in 1..Len(FollowUpMarkers) : MarkAt(k) # {}}
        explicit == IF found = {} THEN after ELSE After(after, MinOf(MarkAt(MinOf(found))))
        c1 == IF Len(u) >= 3 /\ u[1] = "tell" /\ u[2] \in {"him", "her", "them"}
              THEN After(u, 2) ELSE u
        c2 == IF Len(c1) >= 2 /\ c1[1] = "say"
              THEN (IF Len(c1) >= 3 /\ c1[2] = "that" THEN After(c1, 2) ELSE After(c1, 1))
              ELSE c1
        rejected == MentionsAny(c2, FollowUpCommandWords) /\ Len(c2) <= 3
        parsed == IF CharLen(u) < 3 THEN NoFollowUp
                  ELSE IF at > 0
                       THEN (IF explicit = NoWords THEN NoFollowUp
                             ELSE [recipient |-> recipient, message |-> explicit,
                                   send_to_current_chat |-> FALSE])
                  ELSE IF rejected THEN NoFollowUp
                  ELSE [recipient |-> NoWords, message |-> c2, send_to_current_chat |-> TRUE]
    IN  IF parsed.message = NoWords /\ parsed.recipient = NoWords
        THEN [recipient |-> NoWords, message |-> u, send_to_current_chat |-> TRUE]
        ELSE parsed

-----------------------------------------------------------------------------
(* the orchestrator's state *)

NoLoginFlow ==
    [active |-> FALSE, awaiting_email |-> FALSE, awaiting_password |-> FALSE,
     email |-> "none", password |-> NoWords, email_entered |-> FALSE,
     popup_detected |-> FALSE, awaiting_popup_confirmation |-> FALSE]

QUERY_SESSION_APPS == {"chatgpt", "gpt", "openai"}

\* initial_state of process_command; absent keys read as None / False by state.get
InitialState(u) ==
    [user_intent |-> u, intent_parts |-> NoIntent, action_success |-> FALSE,
     task_complete |-> FALSE, iteration_count |-> 0, session_active |-> FALSE,
     needs_auth |-> FALSE, needs_confirmation |-> FALSE, needs_query_execution |-> FALSE,
     error |-> "none", pending_query |-> NoWords, pending_app |-> NoWords,
     query_session_follow_up |-> FALSE, whatsapp_follow_up |-> FALSE,
     extracted_info |-> FALSE, login_wall_described |-> FALSE, important_buttons |-> FALSE]

\* what one process_command call did to the device and said to the user
NoFx ==
    [vision |-> FALSE,     \* a tap went to coordinates the description service reported
     signin |-> FALSE,     \* a sign-in control was tapped
     acted |-> FALSE,      \* the device was driven: tap, text, key, app launch
     spoke |-> FALSE,      \* something was spoken to the user
     shown |-> FALSE,      \* the outcome of the run was printed for the user
     asked |-> FALSE,      \* the confirmation question was asked
     declined |-> FALSE,   \* ... and the answer was negative or absent
     late |-> FALSE,       \* the device was driven after that answer
     observes |-> 0,       \* entries into the observe node
     queried |-> FALSE,    \* the execute_query node ran
     archived |-> FALSE,   \* complete_task appended the task record to task_history
     handled |-> FALSE,    \* the handle_error node ran
     exhausted |-> FALSE,  \* a guided login used up its step budget
     relogin |-> FALSE,    \* ... and a guided login was started after that
     unserved |-> FALSE]   \* a login wall's SSO was absent or failed, and no credential login since

\* a tap: where its coordinates came from, and whether it presses a sign-in control
TapOf(src, signin) == [src |-> src, signin |-> signin]

\* record device effects; "late" marks an effect made after the user declined
Do(f, taps, dev) ==
    [f EXCEPT !.vision = @ \/ \E t \in taps : t.src = "vision",
              !.signin = @ \/ \E t \in taps : t.signin,
              !.acted = @ \/ taps # {} \/ dev # {},
              !.late = @ \/ (f.declined /\ (taps # {} \/ dev # {}))]

Say(f) == [f EXCEPT !.spoke = TRUE]

\* what a node did about a login wall (or login popup) it detected: "none" when it saw no
\* wall, "sso" when the Google sign-in went through, "credential" when the sign-in was absent
\* or failed and the node went on to the credential login, "unserved" when it did not
Walled(o, w) == [out |-> o, wall |-> w]
Wall(f, w) ==
    [f EXCEPT !.unserved = IF w = "unserved" THEN TRUE
                           ELSE IF w \in {"sso", "credential"} THEN FALSE
                           ELSE @]

NoCall == [cmd |-> NoWords, sticky |-> NoWords, flow |-> NoLoginFlow, result |-> "none"]

Init ==
    /\ pc = "idle"
    /\ st = InitialState(NoWords)
    /\ query_app_session = NoWords
    /\ login_flow_state = NoLoginFlow
    /\ steps = 0
    /\ call = NoCall
    /\ fx = NoFx
    /\ current_task = NoWords
    /\ tapIn = "none"
    /\ tapOut = "none"
    /\ api = "none"
    /\ retry = "none"
    /\ coords = "none"
    /\ send = "none"
    /\ sheet = "none"

\* _handle_issue_with_llm: a screenshot is analysed and the user is asked for guidance
HandleIssue(s, shot, issue) ==
    IF ~shot THEN [s EXCEPT !.error = issue, !.task_complete = TRUE]
    ELSE [s EXCEPT !.task_complete = FALSE, !.session_active = TRUE]

-----------------------------------------------------------------------------
(* process_command *)

\* the run is started: start_task, initial_state, follow-up marking, workflow.invoke
StartRun(u, sticky) ==
    LET base == InitialState(u)
        wa == ParseWhatsAppFollowUp(u)
    IN  IF sticky # NoWords /\ u # NoWords
        THEN IF sticky = <<"whatsapp">>
             THEN [base EXCEPT !.whatsapp_follow_up = TRUE,
                               !.intent_parts =
                                   [NoIntent EXCEPT !.action = "send_whatsapp_message",
                                                    !.app = <<"whatsapp">>,
                                                    !.recipient = wa.recipient,
                                                    !.message = wa.message,
                                                    !.send_to_current_chat = wa.send_to_current_chat]]
             ELSE [base EXCEPT !.query_session_follow_up = TRUE, !.pending_query = u,
                               !.pending_app = sticky]
        ELSE base

ProcessCommand(u) ==
    /\ pc = "idle"
    /\ LET lfs == login_flow_state
           sticky == query_app_session
           c0 == [cmd |-> u, sticky |-> sticky, flow |-> lfs, result |-> "running"]
           is_conv == IF sticky # NoWords /\ u # NoWords THEN FALSE ELSE IsConversational(u)
           email == ExtractEmail(u)
           said == ExtractPassword(u)
           password == IF said # NoWords THEN said
                       ELSE IF CharLen(u) > 3 THEN u ELSE NoWords
           Done(kind, f, l, q) ==
               /\ pc' = "returned"
               /\ call' = [c0 EXCEPT !.result = kind]
               /\ fx' = f
               /\ login_flow_state' = l
               /\ query_app_session' = q
               /\ UNCHANGED <<st, steps, current_task>>
       IN
       \* tapped: _auto_tap_login_button finds the button; shot: a screenshot is captured;
       \* found: the input field is found in the structural index
       \E tapped \in BOOLEAN, shot \in BOOLEAN, found \in BOOLEAN :
       IF (lfs.popup_detected \/ lfs.awaiting_popup_confirmation) /\ IsLoginConfirmation(u)
       THEN    IF tapped
               THEN Done("popup_confirmed", Say(Do(NoFx, {TapOf("structural", TRUE)}, {})),
                         [lfs EXCEPT !.popup_detected = FALSE,
                                     !.awaiting_popup_confirmation = FALSE,
                                     !.active = TRUE, !.awaiting_email = TRUE],
                         sticky)
               ELSE Done(IF shot THEN "guidance" ELSE "issue", Say(NoFx), lfs, sticky)
       ELSE IF lfs.awaiting_email
       THEN IF email # "none"
            THEN Done("email_entered",
                      IF found THEN Do(NoFx, {TapOf("structural", FALSE)}, {"type"})
                      ELSE Say(NoFx),
                      [lfs EXCEPT !.email = email, !.awaiting_email = FALSE,
                                  !.awaiting_password = TRUE],
                      sticky)
            ELSE Done("awaiting_email", Say(NoFx), lfs, sticky)
       ELSE IF lfs.awaiting_password /\ password # NoWords
       THEN Done("password_entered",
                 IF found THEN Do(NoFx, {TapOf("structural", FALSE)}, {"type"})
                 ELSE Say(NoFx),
                 [lfs EXCEPT !.password = password, !.awaiting_password = FALSE,
                             !.active = FALSE],
                 sticky)
       ELSE IF is_conv
       THEN Done("conversational", Say(NoFx), lfs, sticky)
       ELSE IF sticky # NoWords /\ IsClosePhrase(u) /\ ~IsCloseAppPhrase(u)
       THEN Done("session_ended", Say(NoFx), lfs, NoWords)
       ELSE LET closing == sticky # NoWords /\ IsClosePhrase(u)
                cmd == IF closing THEN <<"close", "app">> ELSE u
                q == IF closing THEN NoWords ELSE sticky
            IN  /\ pc' = "observe"
                /\ st' = StartRun(cmd, q)
                /\ steps' = 0
                /\ call' = c0
                /\ fx' = IF closing THEN Say(NoFx) ELSE NoFx
                /\ query_app_session' = q
                /\ current_task' = cmd
                /\ UNCHANGED login_flow_state
    /\ UNCHANGED units

-----------------------------------------------------------------------------
(* the compiled workflow: one action per node, its outgoing edge folded in *)

\* a node runs: it counts against the recursion limit of workflow.invoke
Enter(node) ==
    /\ pc = node
    /\ steps < RecursionLimit
    /\ steps' = steps + 1

Visit(f, node) == IF node = "execute_query" THEN [f EXCEPT !.queried = TRUE] ELSE f

\* an exception leaves workflow.invoke; process_command speaks it and returns {"error": ...}
Abort(f) ==
    /\ pc' = "returned"
    /\ call' = [call EXCEPT !.result = "error"]
    /\ fx' = Say(f)

CapError == "Maximum iterations reached"

Observe ==
    /\ Enter("observe")
    /\ LET n == st.iteration_count + 1
           s1 == [st EXCEPT !.iteration_count = n]
           f1 == Visit([fx EXCEPT !.observes = @ + 1], "observe")
       IN  IF n > maxIterations
           THEN /\ st' = [s1 EXCEPT !.error = CapError, !.task_complete = TRUE]
                /\ fx' = Say(f1)
           ELSE /\ st' = s1
                /\ fx' = f1
    /\ pc' = "analyze"
    /\ UNCHANGED <<query_app_session, login_flow_state, call, current_task, units>>

\* _should_authenticate
ShouldAuthenticate(s) ==
    IF s.intent_parts.action = "open_app" /\ s.action_success THEN "act"
    ELSE IF s.intent_parts.action = "login" /\ s.session_active THEN "authenticate"
    ELSE IF s.needs_auth THEN "authenticate"
    ELSE "act"

Analyze ==
    /\ Enter("analyze")
    /\ LET f1 == Visit(fx, "analyze")
           parsed == ParseIntent(st.user_intent)
       IN  IF st.query_session_follow_up /\ st.pending_query # NoWords /\ st.pending_app # NoWords
           THEN LET s1 == [st EXCEPT !.intent_parts =
                                        [NoIntent EXCEPT !.action = "open_app",
                                                         !.app = st.pending_app,
                                                         !.query = st.pending_query],
                                     !.needs_query_execution = TRUE]
                IN  /\ st' = s1 /\ fx' = f1 /\ pc' = ShouldAuthenticate(s1) /\ UNCHANGED call
           ELSE IF st.whatsapp_follow_up /\ st.intent_parts.action = "send_whatsapp_message"
           THEN /\ st' = st /\ fx' = f1 /\ pc' = ShouldAuthenticate(st) /\ UNCHANGED call
           ELSE IF ParseRaises(st.user_intent)
           THEN /\ Abort(f1) /\ UNCHANGED st
           ELSE LET s1 == [st EXCEPT !.intent_parts = parsed, !.needs_auth = parsed.wants_login]
                IN  /\ st' = s1 /\ fx' = f1 /\ pc' = ShouldAuthenticate(s1) /\ UNCHANGED call
    /\ UNCHANGED <<query_app_session, login_flow_state, current_task, units>>

\* AppLauncher.get_package_name: the app names of the vocabulary it resolves to a package
\* ("paytm" by its similarity to "maps"); launch_app gives any other name to the device as
\* the package, and the device finds no activity to run
ResolvedApps == {<<"chatgpt">>, <<"gmail">>, <<"whatsapp">>, <<"paytm">>}
Resolves(app) == app \in ResolvedApps

\* _act: the new workflow state, the device effects and the sticky session after the branch
\* taken; launched: launch_app succeeds; found: the looked-up element is found (structural
\* index, or description service for the search field); pin: a UPI PIN is typed by the user
ActOutcome(s, sticky, launched, found, pin) ==
    LET ip == s.intent_parts
        Out(s1, taps, dev, q) == [s |-> s1, taps |-> taps, dev |-> dev, sticky |-> q]
        Fail(msg) == [s EXCEPT !.action_success = FALSE, !.error = msg, !.task_complete = TRUE]
        lookup == IF found THEN {TapOf("structural", FALSE)} ELSE {TapOf("fixed", FALSE)}
    IN  IF s.query_session_follow_up
        THEN Out([s EXCEPT !.action_success = TRUE], {}, {}, sticky)
        ELSE IF ip.action = "open_app"
        THEN IF ip.app # NoWords
             THEN LET q == IF sticky # NoWords /\ ip.app # sticky THEN NoWords ELSE sticky
                  IN  IF launched /\ Resolves(ip.app)
                      THEN Out([s EXCEPT !.action_success = TRUE], {}, {"launch"}, q)
                      ELSE Out(Fail("Failed to open app"), {}, {}, q)
             ELSE Out(Fail("Could not understand which app to open"), {}, {}, sticky)
        ELSE IF ip.action = "close_app"
        THEN Out([s EXCEPT !.action_success = TRUE, !.task_complete = TRUE], {}, {"home"}, sticky)
        ELSE IF ip.action = "login"
        THEN Out([s EXCEPT !.action_success = TRUE, !.needs_auth = TRUE,
                           !.task_complete = FALSE], {}, {}, sticky)
        ELSE IF ip.action = "send_whatsapp_message"
        THEN IF ip.message = NoWords
             THEN Out(Fail("Please specify what message to send"), {}, {}, sticky)
             ELSE IF ~launched
             THEN Out(Fail("Failed to open WhatsApp"), {}, {}, sticky)
             ELSE IF ~ip.send_to_current_chat /\ ip.recipient = NoWords
             THEN Out(Fail("Please specify who to send the message to"), {}, {"launch"}, sticky)
             ELSE Out([s EXCEPT !.action_success = TRUE, !.task_complete = TRUE],
                      lookup, {"launch", "type"}, <<"whatsapp">>)
        ELSE IF ip.action = "send_payment"
        THEN IF ip.amount = "none"
             THEN Out(Fail("Please specify the amount to send"), {}, {}, sticky)
             ELSE IF ~launched
             THEN Out(Fail("Failed to open payment app"), {}, {}, sticky)
             ELSE Out([s EXCEPT !.action_success = pin, !.task_complete = TRUE],
                      lookup \cup {TapOf("fixed", FALSE)},
                      {"launch", "type"}, sticky)
        \* tap_element: no command reaches it, _parse_intent raises on every tap command
        ELSE IF ip.action = "tap_element"
        THEN IF found
             THEN Out([s EXCEPT !.action_success = TRUE, !.task_complete = FALSE,
                                !.session_active = TRUE],
                      {TapOf("vision", FALSE)}, {}, sticky)
             ELSE Out([s EXCEPT !.action_success = FALSE, !.task_complete = FALSE,
                                !.error = "Could not find element"], {}, {}, sticky)
        ELSE IF ip.action \in {"search", "query"}
        THEN IF ip.query = NoWords THEN Out(s, {}, {}, sticky)
             ELSE IF found
             THEN Out([s EXCEPT !.action_success = TRUE, !.task_complete = FALSE],
                      {TapOf("vision", FALSE)}, {"type", "key"}, sticky)
             ELSE Out([s EXCEPT !.action_success = FALSE,
                                !.error = "Could not find search field"], {}, {}, sticky)
        ELSE IF ip.action = "extract"
        THEN Out([s EXCEPT !.extracted_info = TRUE, !.action_success = TRUE,
                           !.task_complete = FALSE], {}, {}, sticky)
        ELSE Out([s EXCEPT !.action_success = FALSE, !.error = "Unknown action"], {}, {}, sticky)

\* send_payment cleans the recipient with re.sub before testing it: a command without
\* " to <name>" leaves recipient None and re.sub raises TypeError
ActRaises(s) ==
    /\ ~s.query_session_follow_up
    /\ s.intent_parts.action = "send_payment"
    /\ s.intent_parts.recipient = NoWords

Act ==
    /\ Enter("act")
    /\ IF ActRaises(st)
       THEN /\ Abort(Visit(fx, "act"))
            /\ UNCHANGED <<st, query_app_session>>
       ELSE \E launched \in BOOLEAN, found \in BOOLEAN, pin \in BOOLEAN :
               LET o == ActOutcome(st, query_app_session, launched, found, pin)
               IN  /\ st' = o.s
                   /\ fx' = Do(Visit(fx, "act"), o.taps, o.dev)
                   /\ query_app_session' = o.sticky
                   /\ pc' = "verify"
                   /\ UNCHANGED call
    /\ UNCHANGED <<login_flow_state, current_task, units>>

\* _perform_llm_guided_login, by outcome: whether it succeeded, what it tapped and typed on
\* the way, and whether it typed the e-mail address (login_flow_state["email_entered"])
\* n: the passes of the "while step_count < max_steps" loop the call made
LoginRun(success, taps, dev, email_entered, n) ==
    [success |-> success, taps |-> taps, dev |-> dev, email_entered |-> email_entered,
     steps |-> n]
LoginRuns ==
    { LoginRun(FALSE, {}, {}, FALSE, 0),                 \* the app never left the home screen
      LoginRun(TRUE, {}, {}, FALSE, 1),                  \* "login_complete" at the first step
      LoginRun(FALSE, {TapOf("structural", TRUE)}, {}, FALSE, 1),  \* no e-mail field after the tap
      LoginRun(FALSE, {TapOf("structural", TRUE), TapOf("structural", FALSE)}, {"type"}, TRUE, 3),
      LoginRun(TRUE, {TapOf("structural", TRUE), TapOf("structural", FALSE),
                      TapOf("vision", TRUE)}, {"type"}, TRUE, 5),  \* submit at the model's point
      \* the decision model keeps naming steps until the loop ends: "exceeded maximum steps"
      LoginRun(FALSE, {TapOf("structural", TRUE), TapOf("structural", FALSE),
                       TapOf("vision", TRUE)}, {"type"}, TRUE, max_steps) }

\* the login is counted against the run
CountLogin(f, r) ==
    [f EXCEPT !.exhausted = @ \/ (~r.success /\ r.steps = max_steps),
              !.relogin = @ \/ f.exhausted,
              !.unserved = FALSE]

\* _is_complete
IsComplete(s) ==
    IF s.needs_auth THEN "authenticate"
    ELSE IF s.task_complete /\ ~s.session_active THEN "respond"
    ELSE IF s.needs_confirmation THEN "confirm_action"
    ELSE IF s.needs_query_execution THEN "execute_query"
    ELSE IF s.error # "none" /\ ~s.session_active THEN "handle_error"
    ELSE IF s.session_active THEN "respond"
    ELSE "observe"

Authenticate ==
    /\ Enter("authenticate")
    /\ \E r \in LoginRuns :
          /\ st' = IF r.success
                   THEN [st EXCEPT !.action_success = TRUE, !.session_active = TRUE,
                                   !.task_complete = FALSE]
                   ELSE [st EXCEPT !.action_success = FALSE, !.error = "Login failed",
                                   !.task_complete = FALSE]
          /\ fx' = CountLogin(Do(Visit(fx, "authenticate"), r.taps, r.dev), r)
          /\ login_flow_state' =
                IF r.email_entered
                THEN [login_flow_state EXCEPT !.email_entered = TRUE, !.email = "bob@example.com"]
                ELSE login_flow_state
    /\ pc' = "verify"
    /\ UNCHANGED <<query_app_session, call, current_task, units>>

\* the user's words ask for a login (the test _verify applies to user_intent)
SaysLogin(u) == Mentions(u, "login") \/ HasPhrase(u, <<"sign", "in">>)

VOut(s, taps, spoke) == [s |-> s, taps |-> taps, spoke |-> spoke]

\* _verify after a successful open_app; the screen, the structural index and the decision
\* model are the environment
VerifyOpen(s) ==
    LET ip == s.intent_parts
        Pend(x) == IF ip.query # NoWords
                   THEN [x EXCEPT !.pending_query = ip.query, !.pending_app = ip.app] ELSE x
        Active(x) == [x EXCEPT !.task_complete = FALSE, !.session_active = TRUE]
        NeedAuth(x) == [Active(x) EXCEPT !.needs_auth = TRUE]
        Query(x) == IF ip.query # NoWords THEN [Active(x) EXCEPT !.needs_query_execution = TRUE]
                    ELSE Active(x)
        s1 == Pend(s)
        \* a login wall with its first button found: "Continue with Google" is tapped
        wallFound ==
            { VOut([Active(s1) EXCEPT !.needs_auth = FALSE],
                   {TapOf("structural", TRUE)}, TRUE) }
        \* the command asked for a login: vision region -> structural node, or keyword search
        wantsLogin ==
            { VOut(NeedAuth(s1), IF tapped THEN {TapOf("structural", TRUE)} ELSE {}, FALSE) :
                tapped \in BOOLEAN }
        executeQuery == { VOut([Active(s1) EXCEPT !.needs_query_execution = TRUE], {}, FALSE) }
        \* auto_proceed: the button the description service located is tapped where it said,
        \* else a keyword search of the structural index ("log in" and "login" among the keys)
        autoProceed ==
            { VOut(Query(s1), t, FALSE) :
                t \in { {}, {TapOf("vision", FALSE)}, {TapOf("vision", TRUE)},
                        {TapOf("structural", FALSE)}, {TapOf("structural", TRUE)} } }
        \* any other decision: a visible login button is tapped when the words mention login
        loginSeen ==
            { VOut(NeedAuth(s1), {TapOf("vision", TRUE)}, FALSE),
              VOut(NeedAuth(s1), {TapOf("structural", TRUE)}, FALSE),
              VOut([s1 EXCEPT !.error = "Login button found but coordinates invalid",
                              !.task_complete = FALSE], {}, FALSE) }
        askConfirmation ==
            { VOut([s1 EXCEPT !.login_wall_described = wall, !.important_buttons = buttons,
                              !.needs_confirmation = TRUE, !.task_complete = FALSE], {}, FALSE) :
                wall \in BOOLEAN, buttons \in BOOLEAN }
        normal ==
            IF ip.wants_login THEN wantsLogin
            ELSE executeQuery \cup autoProceed \cup askConfirmation
                 \cup (IF SaysLogin(s.user_intent) THEN loginSeen ELSE {})
    IN  \* "Continue" found on the Google popup, or not found after five attempts
        { Walled(o, w) : o \in wallFound, w \in {"sso", "unserved"} }
        \* no wall, or a wall without a button for the bottom-sheet rule: the normal flow
        \cup { Walled(o, w) : o \in normal, w \in {"none", "unserved"} }

VerifyOutcomes(s) ==
    IF ~s.action_success THEN {Walled(VOut(s, {}, FALSE), "none")}
    ELSE IF s.intent_parts.action = "open_app" THEN VerifyOpen(s)
    ELSE {Walled(VOut([s EXCEPT !.task_complete = FALSE, !.session_active = TRUE], {}, FALSE),
                 "none")}

Verify ==
    /\ Enter("verify")
    /\ \E w \in VerifyOutcomes(st) :
          LET o == w.out
          IN  /\ st' = o.s
              /\ fx' = LET f == Wall(Do(Visit(fx, "verify"), o.taps, {}), w.wall)
                       IN  IF o.spoke THEN Say(f) ELSE f
              /\ pc' = IsComplete(o.s)
    /\ UNCHANGED <<query_app_session, login_flow_state, call, current_task, units>>

COut(s, taps, asked, declined) == [s |-> s, taps |-> taps, asked |-> asked, declined |-> declined]

\* _confirm_action; the user's answer, the screen and the structural index are the environment
ConfirmOutcomes(s) ==
    LET Stop(x) == [x EXCEPT !.task_complete = TRUE, !.action_success = FALSE]
        Err(msg) == [s EXCEPT !.error = msg, !.task_complete = TRUE]
        Clicked == IF s.pending_query # NoWords
                   THEN [s EXCEPT !.needs_query_execution = TRUE, !.task_complete = FALSE]
                   ELSE [s EXCEPT !.action_success = TRUE, !.task_complete = FALSE,
                                  !.session_active = TRUE]
        \* coordinates of the button: structural index, else the description service afresh,
        \* else the buttons stored by _verify
        sources == {"structural", "vision"} \cup (IF s.important_buttons THEN {"vision"} ELSE {})
        wall ==
            { COut([s EXCEPT !.needs_auth = FALSE, !.action_success = TRUE,
                             !.task_complete = FALSE, !.session_active = TRUE],
                   {TapOf("structural", TRUE)}, FALSE, FALSE),
              COut(Err("Login wall detected but no button found"), {}, FALSE, FALSE) }
        refused == { COut(Stop(s), {}, TRUE, TRUE) }
        agreed ==
            { COut([s EXCEPT !.needs_auth = TRUE, !.action_success = TRUE,
                             !.task_complete = FALSE, !.session_active = TRUE],
                   {TapOf("structural", TRUE)}, TRUE, FALSE) }
            \cup { COut(Clicked, {TapOf(src, sign)}, TRUE, FALSE) :
                     src \in sources, sign \in BOOLEAN }
            \* the tap failed and the nearest clickable element was tapped instead
            \cup { COut([s EXCEPT !.action_success = TRUE, !.task_complete = TRUE],
                        {TapOf("structural", FALSE)}, TRUE, FALSE),
                   COut(Err("Failed to tap button"), {}, TRUE, FALSE),
                   COut(Err("Could not find button to click"), {}, TRUE, FALSE) }
    IN  IF s.login_wall_described THEN wall ELSE refused \cup agreed

ConfirmAction ==
    /\ Enter("confirm_action")
    /\ \E o \in ConfirmOutcomes(st) :
          /\ st' = o.s
          /\ fx' = LET f == Say(Do(Visit(fx, "confirm_action"), o.taps, {}))
                   IN  [f EXCEPT !.asked = @ \/ o.asked, !.declined = @ \/ o.declined]
          /\ pc' = IF o.s.needs_query_execution THEN "execute_query" ELSE "respond"
    /\ UNCHANGED <<query_app_session, login_flow_state, call, current_task, units>>

\* spoke: the answer was spoken, or _handle_issue_with_llm asked the user for guidance
QOut(s, taps, dev, flow) ==
    [s |-> s, taps |-> taps, dev |-> dev, flow |-> flow, spoke |-> TRUE]
Quiet(o) == [o EXCEPT !.spoke = FALSE]

\* _execute_query; lfs is login_flow_state on entry
QueryOutcomes(s, lfs) ==
    LET Answered == [s EXCEPT !.extracted_info = TRUE, !.action_success = TRUE,
                              !.task_complete = FALSE, !.session_active = TRUE]
        typed == {TapOf("structural", FALSE)}
        Issue(msg, taps, dev) ==
            { IF shot THEN QOut(HandleIssue(s, shot, msg), taps, dev, lfs)
              ELSE Quiet(QOut(HandleIssue(s, shot, msg), taps, dev, lfs)) : shot \in BOOLEAN }
        popup == [lfs EXCEPT !.popup_detected = TRUE, !.awaiting_popup_confirmation = TRUE]
        asking == [lfs EXCEPT !.popup_detected = FALSE, !.awaiting_popup_confirmation = FALSE,
                              !.active = TRUE, !.awaiting_email = TRUE]
        answered ==
            { \* no login popup
              Walled(QOut(Answered, typed, {"type"}, lfs), "none"),
              \* a login popup: Google sign-in succeeds
              Walled(QOut(Answered, typed \cup {TapOf("structural", TRUE)}, {"type"},
                          NoLoginFlow), "sso"),
              \* Google sign-in fails and no login button is found
              Walled(QOut(Answered, typed, {"type"}, popup), "unserved"),
              \* the login button is tapped and the typed credentials complete the login
              Walled(QOut(Answered, typed \cup {TapOf("structural", TRUE)}, {"type"},
                          NoLoginFlow), "credential"),
              \* the login button is tapped and the typed login does not complete
              Walled(QOut(Answered, typed \cup {TapOf("structural", TRUE)}, {"type"}, asking),
                     "credential") }
        Unwalled(S) == { Walled(o, "none") : o \in S }
    IN  IF s.pending_query = NoWords THEN Unwalled(Issue("No query provided", {}, {}))
        ELSE Unwalled(Issue("Could not open app", {}, {})
                      \cup Issue("Could not find input field", {}, {})
                      \cup Issue("Could not extract response", typed, {"type"}))
             \cup answered

ExecuteQuery ==
    /\ Enter("execute_query")
    /\ \E w \in QueryOutcomes(st, login_flow_state) :
          LET o == w.out
          IN  /\ st' = o.s
              /\ fx' = LET f == Wall(Do(Visit(fx, "execute_query"), o.taps, o.dev), w.wall)
                       IN  IF o.spoke THEN Say(f) ELSE f
              /\ login_flow_state' = o.flow
    /\ pc' = "respond"
    /\ UNCHANGED <<query_app_session, call, current_task, units>>

\* the edge that leaves handle_error, as an observe-again retry would have it
HandleErrorRetryEdge == "observe"

\* workflow.add_edge("handle_error", "respond")
HandleErrorEdge == "respond"

HandleError ==
    /\ Enter("handle_error")
    /\ \E shot \in BOOLEAN :
          /\ st' = HandleIssue(st, shot, st.error)
          \* without a device or a screenshot _handle_issue_with_llm returns before it speaks
          /\ fx' = LET f == [Visit(fx, "handle_error") EXCEPT !.handled = TRUE]
                   IN  IF shot THEN Say(f) ELSE f
    /\ pc' = HandleErrorEdge
    /\ UNCHANGED <<query_app_session, login_flow_state, call, current_task, units>>

\* any(app_lower.startswith(a) or a in app_lower for a in QUERY_SESSION_APPS)
IsQuerySessionApp(app) == MentionsAny(app, QUERY_SESSION_APPS)

\* _respond prints the outcome in every branch, as an error branch that leaves an active
\* session to the next command would not
RespondShowsUnlessSession(s) == ~(s.error # "none" /\ s.session_active)

\* _respond prints the outcome: [SUCCESS], [ERROR], [RESULT] or [INFO], whatever the branch
RespondShows(s) == TRUE

Respond ==
    /\ Enter("respond")
    /\ query_app_session' =
          IF st.pending_app # NoWords /\ st.action_success /\ IsQuerySessionApp(st.pending_app)
          THEN st.pending_app ELSE query_app_session
    /\ st' = IF st.intent_parts.action = "close_app"
             THEN [st EXCEPT !.session_active = FALSE, !.task_complete = TRUE]
             ELSE st
    /\ LET f == Visit(fx, "respond")
           speaks == \/ st.intent_parts.action = "close_app"
                     \/ st.error # "none" /\ ~st.session_active
                     \/ st.error = "none" /\ st.action_success
                     \/ st.error = "none" /\ ~st.action_success /\ ~st.session_active
           f0 == IF speaks THEN Say(f) ELSE f
           f1 == [f0 EXCEPT !.shown = @ \/ RespondShows(st)]
           \* the close_app branch returns before complete_task
           completes == st.intent_parts.action # "close_app" /\ ~st.session_active
       IN  /\ fx' = [f1 EXCEPT !.archived = @ \/ (completes /\ current_task # NoWords)]
           /\ current_task' = IF completes THEN NoWords ELSE current_task
    /\ pc' = "returned"
    /\ call' = [call EXCEPT !.result = "done"]
    /\ UNCHANGED <<login_flow_state, units>>

\* workflow.invoke raises GraphRecursionError once RecursionLimit nodes have run without
\* reaching END
RecursionError ==
    /\ pc \notin {"idle", "returned"}
    /\ steps = RecursionLimit
    /\ Abort(fx)
    /\ UNCHANGED <<st, query_app_session, login_flow_state, steps, current_task, units>>

\* run: the result of process_command is dropped and the loop listens for the next command
Listen ==
    /\ pc = "returned"
    /\ pc' = "idle"
    /\ st' = InitialState(NoWords)
    /\ steps' = 0
    /\ call' = NoCall
    /\ fx' = NoFx
    /\ UNCHANGED <<query_app_session, login_flow_state, current_task, units>>

Next ==
    \/ \E u \in Utterances : ProcessCommand(u)
    \/ Listen
    \/ Observe
    \/ Analyze
    \/ Act
    \/ Authenticate
    \/ Verify
    \/ ConfirmAction
    \/ ExecuteQuery
    \/ HandleError
    \/ Respond
    \/ RecursionError

Spec == Init /\ [][Next]_vars

-----------------------------------------------------------------------------
(* DeviceActions.tap *)

Min(a, b) == IF a < b THEN a ELSE b
Abs(n) == IF n < 0 THEN 0 - n ELSE n
Max(a, b) == IF a > b THEN a ELSE b

\* what device.shell does with the command: a clean result, a result holding "error", or an
\* exception
ShellResults == {"ok", "error", "raise"}

\* tap(x, y): the points named in the "input tap" commands given to the device (none when
\* the call returns before the command) and the value returned
Tap(x, y, shell) ==
    LET cx == Max(0, Min(x, SCREEN_WIDTH))
        cy == Max(0, Min(y, SCREEN_HEIGHT))
    IN  IF cx = 0 /\ cy = 0 THEN [sent |-> {}, ret |-> FALSE]
        ELSE IF cx <= 0 \/ cy <= 0 THEN [sent |-> {}, ret |-> FALSE]
        ELSE [sent |-> {<<cx, cy>>}, ret |-> shell = "ok"]

\* requested coordinates: around the origin and around the far edge of the screen
TapXs == ((0 - MaxOver)..MaxOver) \cup ((SCREEN_WIDTH - MaxOver)..(SCREEN_WIDTH + MaxOver))
TapYs == ((0 - MaxOver)..MaxOver) \cup ((SCREEN_HEIGHT - MaxOver)..(SCREEN_HEIGHT + MaxOver))

InitTap ==
    /\ pc = "tap"
    /\ st = InitialState(NoWords)
    /\ query_app_session = NoWords
    /\ login_flow_state = NoLoginFlow
    /\ steps = 0
    /\ call = NoCall
    /\ fx = NoFx
    /\ current_task = NoWords
    /\ tapIn \in [x : TapXs, y : TapYs]
    /\ tapOut = [sent |-> {}, ret |-> FALSE]
    /\ api = "none"
    /\ retry = "none"
    /\ coords = "none"
    /\ send = "none"
    /\ sheet = "none"

TapCall ==
    /\ pc = "tap"
    /\ \E shell \in ShellResults : tapOut' = Tap(tapIn.x, tapIn.y, shell)
    /\ pc' = "tapped"
    /\ UNCHANGED <<st, query_app_session, login_flow_state, steps, call, fx, current_task, tapIn,
                   api, retry, sheet, coords, send>>

NextTap == TapCall

SpecTap == InitTap /\ [][NextTap]_vars

-----------------------------------------------------------------------------
(* api_server.py: the two command endpoints and the lock around process_command *)

Requests == 1..NumRequests

\* agent_lock = threading.Lock(): 0 when free, else the request that holds it
NoApi ==
    [lock |-> 0,
     at |-> [r \in Requests |-> "new"],     \* where each request's handler stands
     left |-> [r \in Requests |-> 0],       \* device actions its process_command call has yet to make
     log |-> << >>]                         \* the device's actions, each by the request it served

\* "with agent_lock:" is entered by a handler whatever the state of the lock
LockIgnored(a) == TRUE

\* "with agent_lock:" is entered when the lock is free
LockFree(a) == a.lock = 0

\* the handlers touch the agent only through process_command
ApiOnly ==
    UNCHANGED <<pc, st, query_app_session, login_flow_state, steps, call, fx, current_task,
                tapIn, tapOut, retry, sheet, coords, send>>

\* a request arrives at /api/command/text or /api/command/voice
Submit(r) ==
    /\ api.at[r] = "new"
    /\ \E kind \in {"text", "voice"} : api' = [api EXCEPT !.at[r] = kind]
    /\ ApiOnly

\* the command is stripped (text) or transcribed (voice); no command is answered with 400
Prepare(r) ==
    /\ api.at[r] \in {"text", "voice"}
    /\ \E command \in BOOLEAN :
          api' = [api EXCEPT !.at[r] = IF command THEN "ready" ELSE "rejected"]
    /\ ApiOnly

\* "with agent_lock:" is entered and agent.process_command starts
Acquire(r) ==
    /\ api.at[r] = "ready"
    /\ LockFree(api)
    /\ \E n \in 0..MaxDeviceSteps :
          api' = [api EXCEPT !.lock = r, !.at[r] = "processing", !.left[r] = n]
    /\ ApiOnly

\* process_command drives the device
DeviceStep(r) ==
    /\ api.at[r] = "processing"
    /\ api.left[r] > 0
    /\ api' = [api EXCEPT !.left[r] = @ - 1, !.log = Append(@, r)]
    /\ ApiOnly

\* process_command returns, or raises: the with block releases the lock either way
Release(r) ==
    /\ api.at[r] = "processing"
    /\ \E raised \in BOOLEAN :
          /\ ~raised => api.left[r] = 0
          /\ api' = [api EXCEPT !.lock = 0, !.at[r] = IF raised THEN "failed" ELSE "answered"]
    /\ ApiOnly

InitApi ==
    /\ pc = "api"
    /\ st = InitialState(NoWords)
    /\ query_app_session = NoWords
    /\ login_flow_state = NoLoginFlow
    /\ steps = 0
    /\ call = NoCall
    /\ fx = NoFx
    /\ current_task = NoWords
    /\ tapIn = "none"
    /\ tapOut = "none"
    /\ api = NoApi
    /\ retry = "none"
    /\ coords = "none"
    /\ send = "none"
    /\ sheet = "none"

NextApi ==
    \/ \E r \in Requests : Submit(r)
    \/ \E r \in Requests : Prepare(r)
    \/ \E r \in Requests : Acquire(r)
    \/ \E r \in Requests : DeviceStep(r)
    \/ \E r \in Requests : Release(r)

SpecApi == InitApi /\ [][NextApi]_vars

-----------------------------------------------------------------------------
(* ErrorRecovery.retry_with_backoff *)

\* what one call of the action does: a truthy result, a falsy result, or an exception
AttemptOutcomes == {"truthy", "falsy", "raise"}

\* the loop as it would be with a sleep after every failed attempt
SleepsAfterEvery(attempt, max) == attempt < max

\* "if attempt < self.max_retries - 1": a sleep follows the failed attempt
SleepsAfter(attempt, max) == attempt < max - 1

\* the loop as it would be with one attempt more
AttemptsLeftInclusive(attempt, max) == attempt <= max

\* "for attempt in range(self.max_retries)": the loop makes another pass
AttemptsLeft(attempt, max) == attempt < max

\* "delay *= 2"
NextDelay(d) == d * 2

RECURSIVE Pow2(_)
Pow2(k) == IF k = 0 THEN 1 ELSE 2 * Pow2(k - 1)

\* the work of the other units is not touched
RetryOnly ==
    UNCHANGED <<st, query_app_session, login_flow_state, steps, call, fx, current_task,
                tapIn, tapOut, api, sheet, coords, send>>

InitRetry ==
    /\ pc = "attempt"
    /\ st = InitialState(NoWords)
    /\ query_app_session = NoWords
    /\ login_flow_state = NoLoginFlow
    /\ steps = 0
    /\ call = NoCall
    /\ fx = NoFx
    /\ current_task = NoWords
    /\ tapIn = "none"
    /\ tapOut = "none"
    /\ api = "none"
    /\ sheet = "none"
    /\ coords = "none"
    /\ send = "none"
    /\ \E m \in 0..MaxRetries, d \in 0..MaxDelay :
          retry = [max_retries |-> m, retry_delay |-> d,
                   attempt |-> 0,      \* the loop variable
                   delay |-> d,        \* the local delay
                   outs |-> << >>,     \* what each call of the action did
                   sleeps |-> << >>,   \* the arguments of time.sleep, in order
                   result |-> "none"]  \* "value" for the action's result, "None" for None

\* one pass of the loop up to the test that follows the try block
RetryAttempt ==
    /\ pc = "attempt"
    /\ AttemptsLeft(retry.attempt, retry.max_retries)
    /\ \E out \in AttemptOutcomes :
          LET r1 == [retry EXCEPT !.outs = Append(@, out)]
          IN  IF out = "truthy"
              THEN /\ retry' = [r1 EXCEPT !.result = "value"]
                   /\ pc' = "returned"
              ELSE IF SleepsAfter(retry.attempt, retry.max_retries)
              THEN /\ retry' = r1
                   /\ pc' = "sleep"
              ELSE /\ retry' = [r1 EXCEPT !.attempt = @ + 1]
                   /\ pc' = "attempt"
    /\ RetryOnly

\* time.sleep(delay); delay *= 2
RetrySleep ==
    /\ pc = "sleep"
    /\ retry' = [retry EXCEPT !.sleeps = Append(@, retry.delay),
                              !.delay = NextDelay(@),
                              !.attempt = @ + 1]
    /\ pc' = "attempt"
    /\ RetryOnly

\* the loop is over: return None
RetryExhausted ==
    /\ pc = "attempt"
    /\ ~AttemptsLeft(retry.attempt, retry.max_retries)
    /\ retry' = [retry EXCEPT !.result = "None"]
    /\ pc' = "returned"
    /\ RetryOnly

NextRetry == RetryAttempt \/ RetrySleep \/ RetryExhausted

SpecRetry == InitRetry /\ [][NextRetry]_vars

-----------------------------------------------------------------------------
(* AccessibilityTree.find_real_login_button: the bottom-sheet rule *)

\* the classes of the nodes of a dump
Classes == {"android.widget.Button", "android.widget.EditText"}

\* the fragments of the input-field list that occur in the lower-cased class name
ClassFragments(c) ==
    IF c = "android.widget.EditText" THEN {"edittext", "edit"}
    ELSE IF c = "android.widget.AutoCompleteTextView" THEN {"autocomplete"}
    ELSE {}

\* "any(input_type in class_lower for input_type in [...])"
InputTypes == {"edittext", "textfield", "textinput", "edit", "input",
               "autocomplete", "searchview", "editabletext"}

IsInputField(c) == ClassFragments(c) \cap InputTypes # {}

\* the nodes of a dump: clickable attribute, class and bounds [x1,y1][x2,y2]
Lefts == {100}
Tops == {400, 900}
Widths == {MinWidth, MinWidth + 1}
Heights == {MinHeight, MinHeight + 1}

TreeNodes ==
    {[clickable |-> k, class |-> c, bounds |-> <<x, y, x + w, y + h>>] :
        k \in BOOLEAN, c \in Classes, x \in Lefts, y \in Tops, w \in Widths, h \in Heights}

Dumps == UNION {[1..n -> TreeNodes] : n \in 0..MaxNodes}

CentreOf(n) == (n.bounds[2] + n.bounds[4]) \div 2
Width(n) == n.bounds[3] - n.bounds[1]
Height(n) == n.bounds[4] - n.bounds[2]

\* the size test as it would be with the bounds included
LargeInclusive(n) == Width(n) >= MinWidth /\ Height(n) >= MinHeight

\* "if width > 300 and height > 80"
Large(n) == Width(n) > MinWidth /\ Height(n) > MinHeight

\* the entry appended to clickable_buttons; node is the element's place in the dump
Button(i, n) ==
    [node |-> i,
     x |-> (n.bounds[1] + n.bounds[3]) \div 2,
     y |-> (n.bounds[2] + n.bounds[4]) \div 2,
     bounds |-> n.bounds]

\* the choice as it would be with the last button of the sorted list
LastByY(buttons) ==
    LET i == CHOOSE i \in 1..Len(buttons) :
                 \A j \in 1..Len(buttons) : buttons[i].y >= buttons[j].y
    IN  buttons[i]

\* clickable_buttons.sort(key = y) and [0]: the least y, the earliest among equals
FirstByY(buttons) ==
    LET i == CHOOSE i \in 1..Len(buttons) :
                 /\ \A j \in 1..Len(buttons) : buttons[i].y <= buttons[j].y
                 /\ \A j \in 1..(i - 1) : buttons[j].y > buttons[i].y
    IN  buttons[i]

NoButton == [node |-> 0, x |-> 0, y |-> 0, bounds |-> <<0, 0, 0, 0>>]

SheetOnly ==
    UNCHANGED <<st, query_app_session, login_flow_state, steps, call, fx, current_task,
                tapIn, tapOut, api, retry, coords, send>>

InitSheet ==
    /\ pc = "scan"
    /\ st = InitialState(NoWords)
    /\ query_app_session = NoWords
    /\ login_flow_state = NoLoginFlow
    /\ steps = 0
    /\ call = NoCall
    /\ fx = NoFx
    /\ current_task = NoWords
    /\ tapIn = "none"
    /\ tapOut = "none"
    /\ api = "none"
    /\ retry = "none"
    /\ coords = "none"
    /\ send = "none"
    /\ \E d \in Dumps :
          sheet = [tree |-> d,            \* the nodes of the dump, in document order
                   at |-> 1,              \* the node the scan looks at next
                   buttons |-> << >>,     \* clickable_buttons
                   found |-> FALSE,       \* a tuple is returned (otherwise None)
                   result |-> NoButton]

\* one node of the dump: the pattern matches clickable nodes only; small elements and
\* input fields are passed over
SheetScan ==
    /\ pc = "scan"
    /\ sheet.at <= Len(sheet.tree)
    /\ LET n == sheet.tree[sheet.at]
           keep == n.clickable /\ Large(n) /\ ~IsInputField(n.class)
       IN  sheet' = [sheet EXCEPT !.at = @ + 1,
                                  !.buttons = IF keep THEN Append(@, Button(sheet.at, n)) ELSE @]
    /\ pc' = "scan"
    /\ SheetOnly

\* the scan is over: the first button by y, or None
SheetPick ==
    /\ pc = "scan"
    /\ sheet.at > Len(sheet.tree)
    /\ sheet' = IF sheet.buttons # << >>
                THEN [sheet EXCEPT !.found = TRUE, !.result = FirstByY(sheet.buttons)]
                ELSE sheet
    /\ pc' = "returned"
    /\ SheetOnly

NextSheet == SheetScan \/ SheetPick

SpecSheet == InitSheet /\ [][NextSheet]_vars

\* the clickable elements of the dump that are no input fields and pass the size test
Qualifying(tree) ==
    {i \in 1..Len(tree) :
        /\ tree[i].clickable /\ tree[i].class \notin {"android.widget.EditText"}
        /\ tree[i].bounds[3] - tree[i].bounds[1] > MinWidth
        /\ tree[i].bounds[4] - tree[i].bounds[2] > MinHeight}

\* the same with the bounds of the size test included
QualifyingInclusive(tree) ==
    {i \in 1..Len(tree) :
        /\ tree[i].clickable /\ tree[i].class \notin {"android.widget.EditText"}
        /\ tree[i].bounds[3] - tree[i].bounds[1] >= MinWidth
        /\ tree[i].bounds[4] - tree[i].bounds[2] >= MinHeight}

-----------------------------------------------------------------------------
(* AccessibilityTree.find_button_below_y: the first large button below a field *)

\* "at least 50px below"
BelowMargin == 50

\* the classes of the nodes of a dump under a field
BelowClasses == Classes \cup {"android.widget.AutoCompleteTextView"}

\* 'any(input_type in class_lower for input_type in ["edittext", "textfield", "edit", "input"])'
BelowInputTypes == {"edittext", "textfield", "edit", "input"}

IsBelowInputField(c) == ClassFragments(c) \cap BelowInputTypes # {}

\* the arguments of the callers: the field's y with (300, 80), and 800 with (200, 40)
BelowArgs == {[min_y |-> 500, min_width |-> MinWidth, min_height |-> MinHeight],
              [min_y |-> 800, min_width |-> 200, min_height |-> 40]}

\* nodes with centres above the field, at the margin, and below it
BelowTops == {260, 510, 560, 660}
BelowWidths == {MinWidth - 1, MinWidth}

BelowNodes ==
    {[clickable |-> k, class |-> c, bounds |-> <<x, y, x + w, y + MinHeight>>] :
        k \in BOOLEAN, c \in BelowClasses, x \in Lefts, y \in BelowTops, w \in BelowWidths}

BelowDumps == UNION {[1..n -> BelowNodes] : n \in 0..MaxNodes}

\* "if center_y <= min_y + 50: continue"
BelowField(n, min_y) == ~(CentreOf(n) <= min_y + BelowMargin)

\* "if width >= min_width and height >= min_height"
LargeEnough(n, w, h) == Width(n) >= w /\ Height(n) >= h

InitBelow ==
    /\ pc = "scan_below"
    /\ st = InitialState(NoWords)
    /\ query_app_session = NoWords
    /\ login_flow_state = NoLoginFlow
    /\ steps = 0
    /\ call = NoCall
    /\ fx = NoFx
    /\ current_task = NoWords
    /\ tapIn = "none"
    /\ tapOut = "none"
    /\ api = "none"
    /\ retry = "none"
    /\ coords = "none"
    /\ send = "none"
    /\ \E d \in BelowDumps, a \in BelowArgs :
          sheet = [tree |-> d, at |-> 1, buttons |-> << >>, found |-> FALSE,
                   result |-> NoButton, args |-> a]

\* one node of the dump: clickable, below the field by more than the margin, large enough
\* and of no input class
BelowScan ==
    /\ pc = "scan_below"
    /\ sheet.at <= Len(sheet.tree)
    /\ LET n == sheet.tree[sheet.at]
           keep == /\ n.clickable
                   /\ BelowField(n, sheet.args.min_y)
                   /\ LargeEnough(n, sheet.args.min_width, sheet.args.min_height)
                   /\ ~IsBelowInputField(n.class)
       IN  sheet' = [sheet EXCEPT !.at = @ + 1,
                                  !.buttons = IF keep THEN Append(@, Button(sheet.at, n)) ELSE @]
    /\ pc' = "scan_below"
    /\ SheetOnly

\* the scan is over: the first button by y, or None
BelowPick ==
    /\ pc = "scan_below"
    /\ sheet.at > Len(sheet.tree)
    /\ sheet' = IF sheet.buttons # << >>
                THEN [sheet EXCEPT !.found = TRUE, !.result = FirstByY(sheet.buttons)]
                ELSE sheet
    /\ pc' = "returned"
    /\ SheetOnly

NextBelow == BelowScan \/ BelowPick

SpecBelow == InitBelow /\ [][NextBelow]_vars

-----------------------------------------------------------------------------
(* DeviceActions.map_vision_to_device_coords *)

\* SCREEN_WIDTH x SCREEN_HEIGHT: the default, and a size read from "wm size"
DeviceSizes == {<<SCREEN_WIDTH, SCREEN_HEIGHT>>, <<720, 1280>>}

\* STATUS_BAR_HEIGHT: the default, and a top inset read from dumpsys
StatusBars == {50, 72}

\* the sizes of the screenshot: the screen, a half and a small copy, enlargements, and none
ImageSizes == {<<SCREEN_WIDTH, SCREEN_HEIGHT>>, <<540, 1200>>, <<99, 220>>,
               <<2160, 4800>>, <<3240, 7200>>, <<0, 0>>}

\* the products v * (dev / img) that the float arithmetic leaves just under the integer
\* they equal: 11 * (1080 / 99) is 119.99999999999999
FloatShort == {<<11, 1080, 99>>}

\* the mapping as it would be without the status bar offset
ScaledWithoutBar(v, dev, img, off) == IF img > 0 THEN (v * dev) \div img ELSE v

\* int(v * scale + off) with scale = dev / img if img > 0 else 1.0
Scaled(v, dev, img, off) ==
    IF img > 0
    THEN (IF <<v, dev, img>> \in FloatShort /\ off = 0
          THEN (v * dev) \div img - 1
          ELSE (v * dev) \div img) + off
    ELSE v + off

CoordsOnly ==
    UNCHANGED <<st, query_app_session, login_flow_state, steps, call, fx, current_task,
                tapIn, tapOut, api, retry, sheet, send>>

InitMap ==
    /\ pc = "map"
    /\ st = InitialState(NoWords)
    /\ query_app_session = NoWords
    /\ login_flow_state = NoLoginFlow
    /\ steps = 0
    /\ call = NoCall
    /\ fx = NoFx
    /\ current_task = NoWords
    /\ tapIn = "none"
    /\ tapOut = "none"
    /\ api = "none"
    /\ retry = "none"
    /\ sheet = "none"
    /\ send = "none"
    /\ \E x \in 0..MaxPoint, y \in 0..MaxPoint, dev \in DeviceSizes, bar \in StatusBars,
          img \in ImageSizes :
          coords = [x_vision |-> x, y_vision |-> y,
                    screenshot_width |-> img[1], screenshot_height |-> img[2],
                    SCREEN_WIDTH |-> dev[1], SCREEN_HEIGHT |-> dev[2],
                    STATUS_BAR_HEIGHT |-> bar,
                    device_x |-> 0, device_y |-> 0]

MapVisionToDeviceCoords ==
    /\ pc = "map"
    /\ coords' = [coords EXCEPT
          !.device_x = Scaled(coords.x_vision, coords.SCREEN_WIDTH, coords.screenshot_width, 0),
          !.device_y = Scaled(coords.y_vision, coords.SCREEN_HEIGHT, coords.screenshot_height,
                              coords.STATUS_BAR_HEIGHT)]
    /\ pc' = "returned"
    /\ CoordsOnly

NextMap == MapVisionToDeviceCoords

SpecMap == InitMap /\ [][NextMap]_vars

-----------------------------------------------------------------------------
(* AgentOrchestrator._validate_coordinates *)

\* the test as it would be without a status bar area
NoStatusBarArea(y) == FALSE

\* "if y < STATUS_BAR_MAX"
InStatusBarArea(y) == y < STATUS_BAR_MAX

ValidateCoordinates(x, y, width, height) ==
    IF x < 1 \/ y < 1 THEN FALSE
    ELSE IF x > width \/ y > height THEN FALSE
    ELSE IF InStatusBarArea(y) THEN FALSE
    ELSE TRUE

\* points around the edges of the screen and of the status bar area
ValidateXs == TapXs \cup {540}
ValidateYs == TapYs \cup ((STATUS_BAR_MAX - MaxOver)..(STATUS_BAR_MAX + MaxOver)) \cup {50}

InitValidate ==
    /\ pc = "validate"
    /\ st = InitialState(NoWords)
    /\ query_app_session = NoWords
    /\ login_flow_state = NoLoginFlow
    /\ steps = 0
    /\ call = NoCall
    /\ fx = NoFx
    /\ current_task = NoWords
    /\ tapIn = "none"
    /\ tapOut = "none"
    /\ api = "none"
    /\ retry = "none"
    /\ sheet = "none"
    /\ send = "none"
    /\ \E x \in ValidateXs, y \in ValidateYs, dev \in DeviceSizes :
          coords = [x |-> x, y |-> y, SCREEN_WIDTH |-> dev[1], SCREEN_HEIGHT |-> dev[2],
                    valid |-> "none"]

ValidateCall ==
    /\ pc = "validate"
    /\ coords' = [coords EXCEPT !.valid =
          ValidateCoordinates(coords.x, coords.y, coords.SCREEN_WIDTH, coords.SCREEN_HEIGHT)]
    /\ pc' = "returned"
    /\ CoordsOnly

NextValidate == ValidateCall

SpecValidate == InitValidate /\ [][NextValidate]_vars

-----------------------------------------------------------------------------
(* AccessibilityTree.find_button_by_keywords *)

\* the nodes of a dump: class, clickable attribute, whether a keyword occurs in the text, in
\* the content description and in the resource id; every node has the bounds of a wide
\* element in the middle of the screen, [100,400][980,520]; no keyword of the callers
\* occurs in a class name
KeywordNodes ==
    {[class |-> c, clickable |-> k, text |-> t, desc |-> d, rid |-> r] :
        c \in Classes, k \in BOOLEAN, t \in BOOLEAN, d \in BOOLEAN, r \in BOOLEAN}

KeywordDumps == UNION {[1..n -> KeywordNodes] : n \in 0..MaxNodes}

\* the order of the attributes in a node: uiautomator writes text and content-desc before
\* clickable; the patterns of methods 1 and 2 want them after it
AttributeOrders == {"uiautomator", "clickable_first"}

FirstNode(S) == IF S = {} THEN 0 ELSE MinOf(S)

\* the fragment "button" occurs in the lower-cased class name
IsButtonClass(c) == c = "android.widget.Button"

\* METHOD 1: clickable="true" ... text="<keyword>" ... bounds in one tag
Method1(tree, order) ==
    FirstNode({i \in 1..Len(tree) :
                  order = "clickable_first" /\ tree[i].clickable /\ tree[i].text})

\* METHOD 1B: a clickable node, and a text with a keyword in a node of the 3000 characters
\* after its tag; the bounds returned are those of the clickable node
Method1B(tree) ==
    FirstNode({i \in 1..Len(tree) :
                  tree[i].clickable /\ \E j \in (i + 1)..Len(tree) : tree[j].text})

\* METHOD 1C: a node with a keyword in its text, and the last clickable node of the 8000
\* characters before it
Method1C(tree) ==
    LET T == {j \in 1..Len(tree) : tree[j].text /\ \E i \in 1..(j - 1) : tree[i].clickable}
    IN  IF T = {} THEN 0
        ELSE LET j == MinOf(T)
             IN  CHOOSE i \in 1..(j - 1) :
                    tree[i].clickable /\ \A k \in (i + 1)..(j - 1) : ~tree[k].clickable

\* METHOD 2: clickable="true" ... content-desc="<keyword>" ... bounds in one tag
Method2(tree, order) ==
    FirstNode({i \in 1..Len(tree) :
                  order = "clickable_first" /\ tree[i].clickable /\ tree[i].desc})

\* METHOD 3: a clickable node of a button class with a keyword in text, content-desc or
\* resource-id
Method3(tree) ==
    FirstNode({i \in 1..Len(tree) :
                  /\ tree[i].clickable /\ IsButtonClass(tree[i].class)
                  /\ (tree[i].text \/ tree[i].desc \/ tree[i].rid)})

\* METHOD 4: a clickable element that is button-like by class or by size, lies in the middle
\* of the screen and has a keyword in its text (or class)
Method4(tree) ==
    FirstNode({i \in 1..Len(tree) : tree[i].clickable /\ tree[i].text})

\* the methods in the order of the code; the first that finds a node returns it
FindButtonByKeywords(tree, order) ==
    LET found == <<Method1(tree, order), Method1B(tree), Method1C(tree),
                   Method2(tree, order), Method3(tree), Method4(tree)>>
        hits == {m \in 1..Len(found) : found[m] # 0}
    IN  IF hits = {} THEN [node |-> 0, method |-> 0]
        ELSE [node |-> found[MinOf(hits)], method |-> MinOf(hits)]

InitKeywords ==
    /\ pc = "find"
    /\ st = InitialState(NoWords)
    /\ query_app_session = NoWords
    /\ login_flow_state = NoLoginFlow
    /\ steps = 0
    /\ call = NoCall
    /\ fx = NoFx
    /\ current_task = NoWords
    /\ tapIn = "none"
    /\ tapOut = "none"
    /\ api = "none"
    /\ retry = "none"
    /\ coords = "none"
    /\ send = "none"
    /\ \E d \in KeywordDumps, o \in AttributeOrders :
          sheet = [tree |-> d, order |-> o, result |-> [node |-> 0, method |-> 0]]

FindButtonCall ==
    /\ pc = "find"
    /\ sheet' = [sheet EXCEPT !.result = FindButtonByKeywords(sheet.tree, sheet.order)]
    /\ pc' = "returned"
    /\ SheetOnly

NextKeywords == FindButtonCall

SpecKeywords == InitKeywords /\ [][NextKeywords]_vars

-----------------------------------------------------------------------------
(* _execute_query, from the search for the input field to the send button *)

\* the centre of the input field: above the keyboard, or at the bottom of the screen
InputXs == {540}
InputYs == {1500, 2200}

\* the clickable elements of a dump: centre, size (width and height alike: an icon, or a
\* button with a label), and whether the text or description holds the upward arrow, or one
\* of "send", "submit", "arrow", "up"
IconElements ==
    {[x |-> x, y |-> y, size |-> z, up |-> u, ind |-> i] :
        x \in {540, 990}, y \in InputYs, z \in {80, 200}, u \in BOOLEAN, i \in BOOLEAN}

IconDumps ==
    UNION { { {f[i] : i \in 1..n} : f \in [1..n -> IconElements] } : n \in 0..MaxNodes }

\* the known-good fallback of find_send_button_near_input
CHATGPT_SEND_BUTTON == <<990, 1427>>

\* find_send_button_near_input: to the right of the input, in its row
NearInput(e, input_x, input_y) ==
    /\ ~(e.x <= input_x + 20)
    /\ ~(e.x - input_x > 450)
    /\ ~(Abs(e.y - input_y) > 120)

\* "if w < 20 or w > 180 or h < 20 or h > 180: continue"
IconSized(e) == ~(e.size < 20 \/ e.size > 180)

\* the sort key: no upward arrow, no send indicator, distance
SendKey(e, input_x, input_y) ==
    <<IF e.up THEN 0 ELSE 1, IF e.ind THEN 0 ELSE 1,
      (e.x - input_x) * (e.x - input_x) + (e.y - input_y) * (e.y - input_y)>>

KeyLeq(a, b) ==
    \/ a[1] < b[1]
    \/ a[1] = b[1] /\ a[2] < b[2]
    \/ a[1] = b[1] /\ a[2] = b[2] /\ a[3] <= b[3]

\* the candidates of find_send_button_near_input with the least key
BestCandidates(elements, input_x, input_y) ==
    LET C == {e \in elements : NearInput(e, input_x, input_y) /\ IconSized(e)}
    IN  {e \in C : \A f \in C : KeyLeq(SendKey(e, input_x, input_y), SendKey(f, input_x, input_y))}

\* a device action of the sequence: xy is its point (<<0, 0>> for text and keys), at is the
\* number of device mutations made before it,
\* from the number made before the fetch its coordinates come from (-1: from no fetch),
\* ref the number made before the fetch of the coordinates that placed the search
ActionOf(kind, xy, at, from, ref) ==
    [kind |-> kind, xy |-> xy, at |-> at, from |-> from, ref |-> ref]

SendOnly ==
    UNCHANGED <<st, query_app_session, login_flow_state, steps, call, fx, current_task,
                tapIn, tapOut, api, retry, sheet, coords>>

InitSend ==
    /\ pc = "find_input"
    /\ st = InitialState(NoWords)
    /\ query_app_session = NoWords
    /\ login_flow_state = NoLoginFlow
    /\ steps = 0
    /\ call = NoCall
    /\ fx = NoFx
    /\ current_task = NoWords
    /\ tapIn = "none"
    /\ tapOut = "none"
    /\ api = "none"
    /\ retry = "none"
    /\ sheet = "none"
    /\ coords = "none"
    /\ send = [mutations |-> 0,            \* taps, texts and keys sent to the device
               input |-> <<0, 0>>,         \* input_field
               fetched |-> 0,              \* mutations made before input_field was fetched
               dump |-> {},                \* the clickable elements of the last dump
               field |-> <<0, 0>>,         \* where the last dump shows the input field
               acts |-> << >>,             \* the device actions, in order
               issue |-> FALSE]            \* _handle_issue_with_llm was called

\* find_input_field, or the fallback over find_clickable_elements; no field: an issue
FindInputField ==
    /\ pc = "find_input"
    /\ \/ \E x \in InputXs, y \in InputYs :
            /\ send' = [send EXCEPT !.input = <<x, y>>, !.field = <<x, y>>,
                                    !.fetched = send.mutations]
            /\ pc' = "tap_input"
       \/ /\ send' = [send EXCEPT !.issue = TRUE]
          /\ pc' = "returned"
    /\ SendOnly

\* self.device_actions.tap(x, y, delay=0.5)
TapInputField ==
    /\ pc = "tap_input"
    /\ send' = [send EXCEPT
          !.acts = Append(@, ActionOf("tap", send.input, send.mutations, send.fetched, send.fetched)),
          !.mutations = @ + 1]
    /\ pc' = "type_query"
    /\ SendOnly

\* self.device_actions.type_text(query, clear_first=True)
TypeQuery ==
    /\ pc = "type_query"
    /\ send' = [send EXCEPT
          !.acts = Append(@, ActionOf("text", <<0, 0>>, send.mutations, send.mutations, send.mutations)),
          !.mutations = @ + 1]
    /\ pc' = "send"
    /\ SendOnly

\* find_send_button_near_input(input_x, input_y) on a new dump, then the tap; without a
\* clickable element the keyword search finds nothing either and Enter is pressed.  The
\* new dump shows the input field where it is now: with the keyboard open or closed
TapSendButton ==
    /\ pc = "send"
    /\ \E elements \in IconDumps, fy \in InputYs :
          LET best == BestCandidates(elements, send.input[1], send.input[2])
              now == send.mutations
          IN  \/ /\ elements # {}
                 /\ \E e \in best :
                       send' = [send EXCEPT
                          !.dump = elements, !.field = <<send.input[1], fy>>,
                          !.acts = Append(@, ActionOf("tap", <<e.x, e.y>>, now, now, send.fetched)),
                          !.mutations = @ + 1]
              \/ /\ elements # {} /\ best = {}
                 /\ send' = [send EXCEPT
                       !.dump = elements, !.field = <<send.input[1], fy>>,
                       !.acts = Append(@, ActionOf("tap", CHATGPT_SEND_BUTTON, now, 0 - 1,
                                                   send.fetched)),
                       !.mutations = @ + 1]
              \/ /\ elements = {}
                 /\ send' = [send EXCEPT
                       !.dump = elements, !.field = <<send.input[1], fy>>,
                       !.acts = Append(@, ActionOf("key", <<0, 0>>, now, now, now)),
                       !.mutations = @ + 1]
    /\ pc' = "returned"
    /\ SendOnly

NextSend == FindInputField \/ TapInputField \/ TypeQuery \/ TapSendButton

SpecSend == InitSend /\ [][NextSend]_vars

-----------------------------------------------------------------------------
(* _confirm_action after the user agreed: the button is tapped *)

\* "if best_match and min_distance < 200": the radius of the alternative tap
AltRadius == 200

\* where _confirm_action may be asked to tap, and the centres find_clickable_elements may
\* report for the alternative: within the radius of a button, at the same distance from
\* the second button, and far from both
ButtonPoints == {<<540, 1200>>, <<540, 1400>>}
ClickablePoints == {<<540, 1300>>, <<540, 1500>>, <<100, 200>>}
ClickableLists ==
    {<<>>} \cup { <<a>> : a \in ClickablePoints }
           \cup { <<a, b>> : a \in ClickablePoints, b \in ClickablePoints }

\* squared Euclidean distance
Dist2(a, b) == (a[1] - b[1]) * (a[1] - b[1]) + (a[2] - b[2]) * (a[2] - b[2])

\* the loop over clickable_elements: the first element at the least distance (0 when empty)
BestMatch(elements, x, y) ==
    IF elements = <<>> THEN 0
    ELSE CHOOSE i \in 1..Len(elements) :
            \A j \in 1..Len(elements) :
                \/ Dist2(elements[i], <<x, y>>) < Dist2(elements[j], <<x, y>>)
                \/ Dist2(elements[i], <<x, y>>) = Dist2(elements[j], <<x, y>>) /\ i <= j

\* min_distance < 200
WithinRadius(elements, i, x, y) ==
    i # 0 /\ Dist2(elements[i], <<x, y>>) < AltRadius * AltRadius

TapCallOf(x, y, r) == [x |-> x, y |-> y, ret |-> r.ret]

\* the part of the workflow state _confirm_action writes after a tap; action_success is
\* True on entry (the node follows a successful open_app); marked: the code took the
\* branch it takes for a tap that worked
ConfirmEntry ==
    [calls |-> <<>>, error |-> FALSE, task_complete |-> FALSE, action_success |-> TRUE,
     needs_auth |-> FALSE, needs_query_execution |-> FALSE, session_active |-> FALSE,
     marked |-> FALSE]

InitConfirm ==
    /\ pc = "confirm_tap"
    /\ st = InitialState(NoWords)
    /\ query_app_session = NoWords
    /\ login_flow_state = NoLoginFlow
    /\ steps = 0
    /\ call = NoCall
    /\ fx = NoFx
    /\ current_task = NoWords
    /\ tapIn \in [is_login_wall : BOOLEAN, button : ButtonPoints, pending_query : BOOLEAN,
                   clickable_elements : ClickableLists]
    /\ tapOut = ConfirmEntry
    /\ api = "none"
    /\ retry = "none"
    /\ coords = "none"
    /\ send = "none"
    /\ sheet = "none"

ConfirmOnly ==
    UNCHANGED <<st, query_app_session, login_flow_state, steps, call, fx, current_task, tapIn,
                api, retry, sheet, coords, send>>

\* the first tap: the bottom-sheet button of a login wall (result dropped), or the button
\* found for the action (result tested)
ConfirmTap ==
    /\ pc = "confirm_tap"
    /\ \E shell \in ShellResults :
          LET x == tapIn.button[1]
              y == tapIn.button[2]
          IN  IF tapIn.is_login_wall
              THEN LET r == Tap(x + 5, y + 5, shell)
                   IN  /\ tapOut' = [tapOut EXCEPT !.calls = Append(@, TapCallOf(x + 5, y + 5, r)),
                                                   !.needs_auth = TRUE, !.action_success = TRUE,
                                                   !.task_complete = FALSE,
                                                   !.session_active = TRUE, !.marked = TRUE]
                       /\ pc' = "confirmed"
              ELSE LET r == Tap(x, y, shell)
                       t == [tapOut EXCEPT !.calls = Append(@, TapCallOf(x, y, r))]
                   IN  IF r.ret
                       THEN /\ tapOut' =
                                 IF tapIn.pending_query
                                 THEN [t EXCEPT !.needs_query_execution = TRUE,
                                                !.task_complete = FALSE, !.marked = TRUE]
                                 ELSE [t EXCEPT !.action_success = TRUE, !.task_complete = FALSE,
                                                !.session_active = TRUE, !.marked = TRUE]
                            /\ pc' = "confirmed"
                       ELSE /\ tapOut' = t
                            /\ pc' = "confirm_alternative"
    /\ ConfirmOnly

\* "Tap command failed - trying alternative method"
ConfirmAlternative ==
    /\ pc = "confirm_alternative"
    /\ \E shell \in ShellResults :
          LET x == tapIn.button[1]
              y == tapIn.button[2]
              elements == tapIn.clickable_elements
              i == BestMatch(elements, x, y)
              Failed == [tapOut EXCEPT !.error = TRUE, !.task_complete = TRUE]
          IN  IF WithinRadius(elements, i, x, y)
              THEN LET r == Tap(elements[i][1], elements[i][2], shell)
                       c == TapCallOf(elements[i][1], elements[i][2], r)
                   IN  tapOut' =
                          IF r.ret
                          THEN [tapOut EXCEPT !.calls = Append(@, c), !.action_success = TRUE,
                                              !.task_complete = TRUE, !.marked = TRUE]
                          ELSE [Failed EXCEPT !.calls = Append(@, c)]
              ELSE tapOut' = Failed
    /\ pc' = "confirmed"
    /\ ConfirmOnly

NextConfirm == ConfirmTap \/ ConfirmAlternative

SpecConfirm == InitConfirm /\ [][NextConfirm]_vars

-----------------------------------------------------------------------------
(* _perform_llm_guided_login: the wait for the app before the step loop *)

max_wait_attempts == 5

\* what the description service says of the screen; the first two hold a home-screen keyword
Descriptions == {"home screen", "launcher", "login page", "chat"}
IsHomeScreen(d) == d \in {"home screen", "launcher"}

\* "if wait_attempt >= max_wait_attempts" after the loop
GaveUp(wait_attempt) == wait_attempt >= max_wait_attempts

WaitOnly ==
    UNCHANGED <<st, query_app_session, login_flow_state, steps, call, fx, current_task, tapIn,
                tapOut, api, sheet, coords, send>>

InitWait ==
    /\ pc = "wait_loop"
    /\ st = InitialState(NoWords)
    /\ query_app_session = NoWords
    /\ login_flow_state = NoLoginFlow
    /\ steps = 0
    /\ call = NoCall
    /\ fx = NoFx
    /\ current_task = NoWords
    /\ tapIn = "none"
    /\ tapOut = "none"
    /\ api = "none"
    /\ retry = [seen |-> <<>>, wait_attempt |-> 0, result |-> "none"]
    /\ coords = "none"
    /\ send = "none"
    /\ sheet = "none"

\* one pass of "while wait_attempt < max_wait_attempts": continue on a home screen, else break
WaitAttempt ==
    /\ pc = "wait_loop"
    /\ retry.wait_attempt < max_wait_attempts
    /\ \E d \in Descriptions :
          /\ retry' = [retry EXCEPT !.wait_attempt = @ + 1, !.seen = Append(@, d)]
          /\ pc' = IF IsHomeScreen(d) THEN "wait_loop" ELSE "wait_check"
    /\ WaitOnly

\* the loop condition fails
WaitExhausted ==
    /\ pc = "wait_loop"
    /\ ~(retry.wait_attempt < max_wait_attempts)
    /\ pc' = "wait_check"
    /\ UNCHANGED retry
    /\ WaitOnly

\* the test after the loop: return "App did not load", or go on to the step loop
WaitCheck ==
    /\ pc = "wait_check"
    /\ IF GaveUp(retry.wait_attempt)
       THEN /\ retry' = [retry EXCEPT !.result = "App did not load"]
            /\ pc' = "returned"
       ELSE /\ retry' = [retry EXCEPT !.result = "step loop"]
            /\ pc' = "step_loop"
    /\ WaitOnly

NextWait == WaitAttempt \/ WaitExhausted \/ WaitCheck

SpecWait == InitWait /\ [][NextWait]_vars

-----------------------------------------------------------------------------
(* AccessibilityTree.find_clickable_elements and find_node_near_region *)

\* the centre of the region the description service gave
RegionCentre == <<500, 500>>
RegionX == RegionCentre[1]
RegionY == RegionCentre[2]

\* region_width and region_height (0 for None: both are falsy), and search_radius as the
\* callers give it
RegionWidths == {0, 100, 101}
RegionHeights == {0, 100}
SearchRadii == {100, 150}

Bounds(x1, y1, x2, y2) == [x1 |-> x1, y1 |-> y1, x2 |-> x2, y2 |-> y2]

\* bounds of the nodes of a dump, around a region of 100 x 100: inside it; overlapping it
\* with the centre 220 away; beside it with the centre 100 away; beside it with the centre
\* 151 away; touching its edge with the centre 125 away; below it with the centre 100 away;
\* and a node without area at its centre
NearBounds ==
    { Bounds(460, 460, 540, 540), Bounds(540, 400, 900, 600), Bounds(551, 450, 650, 550),
      Bounds(560, 450, 742, 550), Bounds(550, 440, 700, 560), Bounds(400, 560, 600, 640),
      Bounds(500, 500, 500, 500) }

NearNodes == [clickable : BOOLEAN, bounds : NearBounds]
NearDumps == UNION {[1..n -> NearNodes] : n \in 0..MaxNodes}

\* the dictionary find_clickable_elements builds for a matched node
Element(n) ==
    [bounds |-> n.bounds,
     x |-> (n.bounds.x1 + n.bounds.x2) \div 2, y |-> (n.bounds.y1 + n.bounds.y2) \div 2,
     width |-> n.bounds.x2 - n.bounds.x1, height |-> n.bounds.y2 - n.bounds.y1]

\* every node with clickable="true" and bounds, in the order of the dump
RECURSIVE FindClickableElements(_)
FindClickableElements(tree) ==
    IF tree = <<>> THEN <<>>
    ELSE (IF Head(tree).clickable THEN <<Element(Head(tree))>> ELSE <<>>)
         \o FindClickableElements(Tail(tree))

\* "overlaps = not (elem_x2 < region_x1 or elem_x1 > region_x2 or ...)"
Overlaps(e, rx, ry, rw, rh) ==
    LET region_x1 == rx - rw \div 2
        region_y1 == ry - rh \div 2
        region_x2 == rx + rw \div 2
        region_y2 == ry + rh \div 2
    IN  ~(\/ e.bounds.x2 < region_x1 \/ e.bounds.x1 > region_x2
          \/ e.bounds.y2 < region_y1 \/ e.bounds.y1 > region_y2)

\* the radius test with the boundary left out
InSearchRadiusStrict(d2, search_radius) == d2 < search_radius * search_radius

\* "distance <= search_radius", on the squares
InSearchRadius(d2, search_radius) == d2 <= search_radius * search_radius

\* "if distance < min_distance" over the elements of I in list order: the first of the
\* nearest (0 when I is empty)
NearestOf(elements, I, rx, ry) ==
    IF I = {} THEN 0
    ELSE LET D(i) == Dist2(<<elements[i].x, elements[i].y>>, <<rx, ry>>)
         IN  CHOOSE i \in I : \A j \in I : D(i) < D(j) \/ (D(i) = D(j) /\ i <= j)

\* find_node_near_region: the index in all_clickable of the element returned, 0 for None
FindNodeNearRegion(elements, rx, ry, rw, rh, search_radius) ==
    LET all == 1..Len(elements)
        boxed == IF rw # 0 /\ rh # 0
                 THEN { i \in all : Overlaps(elements[i], rx, ry, rw, rh) } ELSE {}
        near == { i \in all :
                    InSearchRadius(Dist2(<<elements[i].x, elements[i].y>>, <<rx, ry>>),
                                   search_radius) }
    IN  IF boxed # {} THEN NearestOf(elements, boxed, rx, ry)
        ELSE NearestOf(elements, near, rx, ry)

InitNear ==
    /\ pc = "find_near"
    /\ st = InitialState(NoWords)
    /\ query_app_session = NoWords
    /\ login_flow_state = NoLoginFlow
    /\ steps = 0
    /\ call = NoCall
    /\ fx = NoFx
    /\ current_task = NoWords
    /\ tapIn = "none"
    /\ tapOut = "none"
    /\ api = "none"
    /\ retry = "none"
    /\ coords = "none"
    /\ send = "none"
    /\ \E d \in NearDumps, w \in RegionWidths, h \in RegionHeights, r \in SearchRadii :
          sheet = [tree |-> d, region_width |-> w, region_height |-> h, search_radius |-> r,
                   all_clickable |-> <<>>, result |-> 0]

\* get_tree_file and the scan for clickable nodes
FindClickableCall ==
    /\ pc = "find_near"
    /\ sheet' = [sheet EXCEPT !.all_clickable = FindClickableElements(sheet.tree)]
    /\ pc' = "match_near"
    /\ SheetOnly

\* the two loops over all_clickable
FindNearCall ==
    /\ pc = "match_near"
    /\ sheet' = [sheet EXCEPT !.result =
                     FindNodeNearRegion(sheet.all_clickable, RegionX, RegionY,
                                        sheet.region_width, sheet.region_height,
                                        sheet.search_radius)]
    /\ pc' = "returned"
    /\ SheetOnly

NextNear == FindClickableCall \/ FindNearCall

SpecNear == InitNear /\ [][NextNear]_vars

-----------------------------------------------------------------------------
(* Properties *)

Nodes == {"observe", "analyze", "act", "authenticate", "verify", "confirm_action",
          "execute_query", "handle_error", "respond"}

\* process_command has returned from a call that started a workflow run
RunEnded == pc = "returned" /\ call.result \in {"done", "error"}

\* no stage of the voice login flow is waiting for the next utterance
FlowIdle(l) ==
    ~(l.awaiting_email \/ l.awaiting_password \/ l.popup_detected
      \/ l.awaiting_popup_confirmation)

\* C1: every workflow run reaches Respond and END: it never leaves workflow.invoke by an
\* exception (the recursion limit of a cycle that does not stop, or a failing node), and it
\* enters Observe at most maxIterations times
C1_RunReachesRespond ==
    /\ fx.observes <= maxIterations
    /\ (pc = "returned" => call.result # "error")

\* C2: every execution of Act that leaves action_success false also leaves error set and
\* task_complete true
C2_ActFailureSetsError ==
    [][(pc = "act" /\ pc' = "verify" /\ ~st'.action_success)
          => (st'.error # "none" /\ st'.task_complete)]_vars

\* C3: in a run whose command does not mention a login, needs_auth is never set and no
\* sign-in control is tapped
C3_NoLoginUnlessRequested ==
    ((pc \in Nodes \/ RunEnded) /\ ~SaysLogin(call.cmd)) => (~st.needs_auth /\ ~fx.signin)

\* C4: once the confirmation question got a negative or no answer, the device is not driven
\* again in that run and the run ends at Respond
C4_DeclineEndsWithoutEffect ==
    /\ ~fx.late
    /\ ((fx.declined /\ pc = "returned") => call.result = "done")

\* C5: tap sends the device no point other than the requested one, and sends nothing when
\* the requested point lies outside [0, SCREEN_WIDTH] x [0, SCREEN_HEIGHT]
C5_TapOnlyAsRequested ==
    pc = "tapped" =>
        /\ tapOut.sent \subseteq {<<tapIn.x, tapIn.y>>}
        /\ (~(tapIn.x \in 0..SCREEN_WIDTH /\ tapIn.y \in 0..SCREEN_HEIGHT) => tapOut.sent = {})

\* C6: no tap goes to coordinates reported by the description service without a structural
\* search having returned the tapped element
C6_NoVisionTap == ~fx.vision

\* C7: a non-empty utterance that is no close phrase, given while a sticky session for a
\* query app A is active and no login flow is pending, is run through ExecuteQuery with
\* pending_app = A and pending_query = the utterance
C7_StickyRoutesToQuery ==
    (/\ pc = "returned"
     /\ IsQuerySessionApp(call.sticky)
     /\ FlowIdle(call.flow)
     /\ call.cmd # NoWords
     /\ ~IsClosePhrase(call.cmd))
        => (fx.queried /\ st.pending_app = call.sticky /\ st.pending_query = call.cmd)

\* C8: when process_command returns from a close phrase given while a sticky session was
\* active, the sticky session is cleared
C8_ClosePhraseClearsSticky ==
    (pc = "returned" /\ call.sticky # NoWords /\ IsClosePhrase(call.cmd))
        => query_app_session = NoWords

\* C9: when process_command returns from a command to open an app other than the app of the
\* active sticky session, given while no login flow is pending, the sticky session no longer
\* names that app
C9_OpenOtherAppClearsSticky ==
    (/\ pc = "returned"
     /\ call.sticky # NoWords
     /\ FlowIdle(call.flow)
     /\ ~ParseRaises(call.cmd)
     /\ ParseIntent(call.cmd).action = "open_app"
     /\ ParseIntent(call.cmd).app # NoWords
     /\ ParseIntent(call.cmd).app # call.sticky)
        => query_app_session # call.sticky

\* C10: within a run iteration_count never decreases and never exceeds maxIterations
C10_BoundedByMax ==
    [][pc' # "idle" =>
          (st'.iteration_count >= st.iteration_count /\ st'.iteration_count <= maxIterations)]_vars

\* C11: a run that ends at Respond with task_complete true and session_active false has
\* archived its task record: complete_task appended it to task_history and current_task is
\* cleared
C11_CompletedRunArchived ==
    (pc = "returned" /\ call.result = "done" /\ st.task_complete /\ ~st.session_active)
        => (fx.archived /\ current_task = NoWords)

\* C12: once HandleError has run, the only node that runs after it is Respond and the run
\* then ends there: Observe (or any other node) is never entered after HandleError
C12_HandleErrorThenRespond ==
    fx.handled => (pc = "respond" \/ (pc = "returned" /\ call.result = "done"))

\* a run in which HandleError ran has ended at Respond
C12_HandledRunEnded == fx.handled /\ pc = "returned" /\ call.result = "done"

\* C13: within one run the guided login makes at most max_steps steps in all, and once a
\* login has used up its budget no login is started again in that run
C13_LoginBudgetPerRun == ~fx.relogin

\* C14: a run that detected a login wall whose SSO button was absent or whose SSO attempt
\* failed has gone on to the credential login by the time it ends at Respond
C14_WallFallsBackToCredentials ==
    (pc = "returned" /\ call.result = "done") => ~fx.unserved

\* C15: a run that ends in failure (by an exception, or at Respond with error set or
\* action_success false) has spoken or printed an explanation for the user
C15_FailureIsExplained ==
    (RunEnded /\ (call.result = "error" \/ st.error # "none" \/ ~st.action_success))
        => (fx.spoke \/ fx.shown)

\* a run ended at Respond with an error and an active session: nothing was spoken, the
\* error was printed
C15_SilentErrorShown ==
    RunEnded /\ call.result = "done" /\ st.error # "none" /\ ~fx.spoke /\ fx.shown

\* C16: a run of an open-app command whose app name resolves to no launchable app (given
\* with no sticky session active) ends at Respond with action_success false, task_complete
\* true and an error set
C16_UnresolvedAppEndsWithError ==
    (/\ RunEnded
     /\ call.sticky = NoWords
     /\ ~ParseRaises(call.cmd)
     /\ ParseIntent(call.cmd).action = "open_app"
     /\ ~Resolves(ParseIntent(call.cmd).app))
        => (/\ call.result = "done"
            /\ ~st.action_success /\ st.task_complete /\ st.error # "none")

\* C17: at most one request is inside process_command at any time, and the device's actions
\* for one request are never interleaved with those for another
C17_OneCommandAtATime ==
    /\ Cardinality({r \in Requests : api.at[r] = "processing"}) <= 1
    /\ \A i, j, k \in 1..Len(api.log) :
          (i < j /\ j < k /\ api.log[i] = api.log[k]) => api.log[j] = api.log[i]

\* one request is inside process_command and has driven the device, after another request
\* did, while a third waits for the lock
C17_RequestWaitsForLock ==
    \E r1, r2, r3 \in Requests :
       /\ api.at[r1] = "processing" /\ api.at[r2] = "ready" /\ api.at[r3] = "answered"
       /\ \E i, j \in 1..Len(api.log) : api.log[i] = r3 /\ api.log[j] = r1

\* C18: the k-th sleep of retry_with_backoff (k = 0, 1, ...) lasts retry_delay * 2^k and
\* follows the k-th failed attempt; no sleep follows the last attempt; with max_retries = 3
\* and retry_delay = 2 a call that fails throughout sleeps 2 and then 4
C18_BackoffDelays ==
    /\ \A k \in 1..Len(retry.sleeps) :
          /\ retry.sleeps[k] = retry.retry_delay * Pow2(k - 1)
          /\ k <= Len(retry.outs) /\ retry.outs[k] # "truthy"
    /\ Len(retry.sleeps) < retry.max_retries \/ retry.sleeps = << >>
    /\ pc = "returned" => Len(retry.sleeps) = Len(retry.outs) - (IF retry.outs = << >> THEN 0 ELSE 1)
    /\ (pc = "returned" /\ retry.max_retries = 3 /\ retry.retry_delay = 2
           /\ retry.result = "None") => retry.sleeps = <<2, 4>>

\* a call with max_retries = 3 and retry_delay = 2 has failed three times and slept 2 and 4
C18_TwoThenFour ==
    /\ pc = "returned" /\ retry.max_retries = 3 /\ retry.retry_delay = 2
    /\ Len(retry.outs) = 3 /\ retry.result = "None" /\ retry.sleeps = <<2, 4>>

\* C19: retry_with_backoff calls the action at most max_retries times; it returns the
\* first truthy result, with no attempt and no sleep after it; it returns None exactly when
\* all max_retries attempts gave a falsy result or raised
C19_FirstTruthyOrExhausted ==
    /\ Len(retry.outs) <= retry.max_retries
    /\ \A k \in 1..(Len(retry.outs) - 1) : retry.outs[k] # "truthy"
    /\ pc = "returned" =>
          /\ retry.result = "value" <=>
                (retry.outs # << >> /\ retry.outs[Len(retry.outs)] = "truthy")
          /\ retry.result = "value" => Len(retry.sleeps) = Len(retry.outs) - 1
          /\ retry.result = "None" <=>
                (/\ Len(retry.outs) = retry.max_retries
                 /\ \A k \in 1..Len(retry.outs) : retry.outs[k] # "truthy")

\* a call has returned the truthy result of its third attempt, after a falsy result and an
\* exception
C19_ThirdAttemptSucceeds ==
    /\ pc = "returned" /\ retry.result = "value"
    /\ retry.outs = <<"falsy", "raise", "truthy">> /\ retry.max_retries > 3

\* C20 (as stated): when exactly one clickable element of the dump that is no input field
\* is at least MinWidth wide and MinHeight high, bounds included, the bottom-sheet rule
\* returns that element
C20_OnlyLargeElementInclusive ==
    (pc = "returned" /\ Cardinality(QualifyingInclusive(sheet.tree)) = 1) =>
        (sheet.found /\ sheet.result.node \in QualifyingInclusive(sheet.tree))

\* C20 (amended): when exactly one clickable element of the dump that is no input field
\* is more than MinWidth wide and more than MinHeight high, the bottom-sheet rule returns
\* that element, with the centre of its bounds
C20_OnlyLargeElementReturned ==
    (pc = "returned" /\ Cardinality(Qualifying(sheet.tree)) = 1) =>
        /\ sheet.found
        /\ sheet.result.node \in Qualifying(sheet.tree)
        /\ sheet.result = Button(sheet.result.node, sheet.tree[sheet.result.node])

\* the rule has returned the only element of more than MinWidth by MinHeight, the second
\* node of a dump whose first node is a clickable button of exactly MinWidth by MinHeight
C20_SecondNodeReturned ==
    /\ pc = "returned" /\ Len(sheet.tree) = 2
    /\ Qualifying(sheet.tree) = {2} /\ QualifyingInclusive(sheet.tree) = {1, 2}
    /\ Width(sheet.tree[1]) = MinWidth /\ Height(sheet.tree[1]) = MinHeight
    /\ sheet.found /\ sheet.result.node = 2

\* the vertical centre of the bounds of a node of the dump
CentreY(n) == (n.bounds[2] + n.bounds[4]) \div 2

QualifyingBelow(tree, a) ==
    {i \in 1..Len(tree) :
        /\ tree[i].clickable
        /\ tree[i].class \notin {"android.widget.EditText", "android.widget.AutoCompleteTextView"}
        /\ tree[i].bounds[3] - tree[i].bounds[1] >= a.min_width
        /\ tree[i].bounds[4] - tree[i].bounds[2] >= a.min_height
        /\ CentreY(tree[i]) > a.min_y + BelowMargin}

\* C22: find_button_below_y returns the large clickable element of no input class with the
\* smallest vertical centre among those whose centre is more than the margin below the
\* reference, and it never returns an element at or above the reference
C22_ClosestButtonBelow ==
    pc = "returned" =>
        /\ sheet.found => sheet.result.y > sheet.args.min_y
        /\ sheet.found => sheet.result.node \in QualifyingBelow(sheet.tree, sheet.args)
        /\ QualifyingBelow(sheet.tree, sheet.args) # {} =>
              /\ sheet.found
              /\ \A j \in QualifyingBelow(sheet.tree, sheet.args) :
                    sheet.result.y <= CentreY(sheet.tree[j])


\* (d - off) / (dev / img) lies within one pixel of v; the scale is 1.0 for img = 0
BackWithinOne(d, off, dev, img, v) ==
    IF img > 0 THEN Abs((d - off) * img - v * dev) <= dev ELSE Abs((d - off) - v) <= 1

\* the vision point lies within the image
InImage == coords.x_vision <= coords.screenshot_width /\ coords.y_vision <= coords.screenshot_height

RoundTripWithinOne ==
    /\ BackWithinOne(coords.device_x, 0, coords.SCREEN_WIDTH, coords.screenshot_width,
                     coords.x_vision)
    /\ BackWithinOne(coords.device_y, coords.STATUS_BAR_HEIGHT, coords.SCREEN_HEIGHT,
                     coords.screenshot_height, coords.y_vision)

C24_StatusBarRejected ==
    (pc = "returned" /\ coords.y < STATUS_BAR_MAX) => coords.valid = FALSE

\* a point in the middle of the screen's width with y = 99 has been rejected, and the
\* same x is accepted at y = 100
C24_Rejected99 ==
    /\ pc = "returned" /\ coords.x = 540 /\ coords.y = STATUS_BAR_MAX - 1
    /\ coords.valid = FALSE
    /\ ValidateCoordinates(coords.x, STATUS_BAR_MAX, coords.SCREEN_WIDTH, coords.SCREEN_HEIGHT)

\* C25: once Observe has found iteration_count above maxIterations, no Act, Authenticate or
\* ExecuteQuery node is executed in that run: the run goes to Respond with task_complete
\* and the cap error
C25_NoWorkAfterCap ==
    [][(st.iteration_count > maxIterations /\ pc \in {"act", "authenticate", "execute_query"})
          => steps' = steps]_vars

\* C26: a close, exit or stop utterance given while the login flow awaits the password is
\* not typed into the device as the password
C26_ClosePhraseNotTyped ==
    ~(/\ pc = "returned" /\ call.flow.awaiting_password /\ ~call.flow.awaiting_email
      /\ IsClosePhrase(call.cmd)
      /\ call.result = "password_entered" /\ fx.acted
      /\ login_flow_state.password = call.cmd)

\* C27: the voice login flow moves from awaiting_email to awaiting_password only when the
\* email was entered into a field, and it reports login_complete only when the password
\* was entered
C27_StageAdvancesOnSuccess ==
    /\ (pc = "returned" /\ call.result = "email_entered" /\ login_flow_state.awaiting_password)
          => fx.acted
    /\ (pc = "returned" /\ call.result = "password_entered") => fx.acted

\* C28: whenever the login flow awaits the email, some utterance that holds no email
\* address (a close or exit phrase, say) makes process_command return with the flow
\* inactive
C28_CanLeaveLoginFlow ==
    (pc = "idle" /\ login_flow_state.awaiting_email) =>
        ENABLED (\E u \in Utterances :
                    /\ ExtractEmail(u) = "none"
                    /\ ProcessCommand(u)
                    /\ ~login_flow_state'.awaiting_email
                    /\ ~login_flow_state'.active)

\* C29: find_button_by_keywords returns no element whose class is that of an editable input
\* field, whichever keyword matched and in whichever attribute
C29_KeywordMatchSkipsInputs ==
    (pc = "returned" /\ sheet.result.node # 0) =>
        ~IsInputField(sheet.tree[sheet.result.node].class)

\* C30: no device action is directed or placed by coordinates of a structural fetch that
\* was made before an earlier device mutation: the coordinates of every action, and the
\* coordinates that placed the search for them, come from a fetch made after the last
\* mutation
C30_NoStaleCoordinates ==
    \A k \in 1..Len(send.acts) :
        send.acts[k].from = send.acts[k].at /\ send.acts[k].ref = send.acts[k].at

\* the run that has just ended closed the app: _act pressed home for a close_app command
AppClosed ==
    /\ pc = "returned" /\ call.result = "done"
    /\ st.intent_parts.action = "close_app" /\ st.action_success

\* C31: after the user closes the app the login-flow part of the session is empty:
\* awaiting_email, awaiting_password, popup_detected and awaiting_popup_confirmation are
\* all false
C31_CloseEmptiesLoginFlow ==
    AppClosed =>
        /\ ~login_flow_state.awaiting_email
        /\ ~login_flow_state.awaiting_password
        /\ ~login_flow_state.popup_detected
        /\ ~login_flow_state.awaiting_popup_confirmation

\* the run that has just ended opened an app of QUERY_SESSION_APPS: _act launched it for an
\* open_app command (no follow-up of a session), and the run ended with success and no error
ConversableAppOpened ==
    /\ pc = "returned" /\ call.result = "done"
    /\ st.intent_parts.action = "open_app" /\ ~st.query_session_follow_up
    /\ IsQuerySessionApp(st.intent_parts.app)
    /\ st.action_success /\ st.error = "none"

\* C32: after a successful open_app of an app of the conversable allow-list (chatgpt, gpt,
\* openai) the sticky session names that app when the run ends
C32_OpenMarksSticky ==
    ConversableAppOpened => query_app_session = st.intent_parts.app

\* C33: when a tap returns failure, _confirm_action makes exactly one retry at alternative
\* coordinates and, if that fails too, ends the task with an error and task_complete;
\* a tap that failed is never taken for one that worked
C33_FailedTapRetriedOnce ==
    (pc = "confirmed" /\ ~tapOut.calls[1].ret) =>
        /\ Len(tapOut.calls) = 2
        /\ ~tapOut.calls[2].ret => (tapOut.error /\ tapOut.task_complete)
        /\ ~tapOut.calls[Len(tapOut.calls)].ret => ~tapOut.marked

\* C34: the login subflow goes on to its step loop whenever an app (non-home) screen is
\* seen on any of its up to five wait attempts, the fifth included; it returns "App did
\* not load" only if all five attempts showed the home screen
C34_AppSeenMeansStepLoop ==
    (pc \in {"returned", "step_loop"}) =>
        /\ (\E k \in 1..Len(retry.seen) : ~IsHomeScreen(retry.seen[k]))
              => retry.result = "step loop"
        /\ retry.result = "App did not load"
              => (Len(retry.seen) = max_wait_attempts
                  /\ \A k \in 1..Len(retry.seen) : IsHomeScreen(retry.seen[k]))

\* the rectangle of element e and the region of the call have a point in common: the region
\* is region_width x region_height around its centre (twice the coordinates, so that odd
\* sizes are exact); without a width and a height there is no region to overlap
OverlapsRegion(e) ==
    /\ sheet.region_width # 0 /\ sheet.region_height # 0
    /\ 2 * e.bounds.x2 >= 2 * RegionX - sheet.region_width
    /\ 2 * e.bounds.x1 <= 2 * RegionX + sheet.region_width
    /\ 2 * e.bounds.y2 >= 2 * RegionY - sheet.region_height
    /\ 2 * e.bounds.y1 <= 2 * RegionY + sheet.region_height

\* squared distance from the centre of element e to the centre of the region
CentreDist2(e) == (e.x - RegionX) * (e.x - RegionX) + (e.y - RegionY) * (e.y - RegionY)

InsideRadius(e) == CentreDist2(e) <= sheet.search_radius * sheet.search_radius

\* C35: the proximity search returns an element whose bounds overlap the region whenever
\* one exists; otherwise the element whose centre is nearest to the centre of the region
\* among those within the search radius; otherwise nothing.  It never returns an element
\* that neither overlaps the region nor lies within the radius.
C35_OverlapThenNearest ==
    pc = "returned" =>
        LET es == sheet.all_clickable
            all == 1..Len(es)
            r == sheet.result
        IN  /\ r \in 0..Len(es)
            /\ (\E i \in all : OverlapsRegion(es[i])) => (r # 0 /\ OverlapsRegion(es[r]))
            /\ ((\A i \in all : ~OverlapsRegion(es[i])) /\ (\E i \in all : InsideRadius(es[i])))
                  => /\ r # 0 /\ InsideRadius(es[r])
                     /\ \A i \in all : InsideRadius(es[i]) => CentreDist2(es[r]) <= CentreDist2(es[i])
            /\ (\A i \in all : ~OverlapsRegion(es[i]) /\ ~InsideRadius(es[i])) => r = 0
            /\ r # 0 => (OverlapsRegion(es[r]) \/ InsideRadius(es[r]))

\* no element overlaps the region, the first element lies beyond the radius, and the second,
\* at exactly the radius, is returned
C35_SecondAtRadiusReturned ==
    /\ pc = "returned"
    /\ Len(sheet.all_clickable) = 2
    /\ sheet.result = 2
    /\ \A i \in 1..2 : ~OverlapsRegion(sheet.all_clickable[i])
    /\ ~InsideRadius(sheet.all_clickable[1])
    /\ CentreDist2(sheet.all_clickable[2]) = sheet.search_radius * sheet.search_radius

\* C36: the structural element index holds no node without area: every clickable element
\* find_clickable_elements returns has width > 0 and height > 0
C36_NoZeroAreaElement ==
    \A i \in 1..Len(sheet.all_clickable) :
        sheet.all_clickable[i].width > 0 /\ sheet.all_clickable[i].height > 0

\* element e is a send control: its text or description holds the arrow or a send word
SendMarked(e) == e.up \/ e.ind

\* element e is just right of the input field, in its row, where the dump shows the field
BesideField(e) ==
    /\ e.x > send.field[1] + 20
    /\ e.x - send.field[1] <= 450
    /\ Abs(e.y - send.field[2]) <= 120

\* the point xy lies within the bounds of element e
Hits(xy, e) == 2 * Abs(xy[1] - e.x) <= e.size /\ 2 * Abs(xy[2] - e.y) <= e.size

\* C37: in _execute_query, if the current dump holds an arrow- or send-marked control next
\* to the input field, that control is the one tapped to send; Enter is pressed only when
\* the dump holds no send control
C37_SendControlTapped ==
    (pc = "returned" /\ ~send.issue) =>
        LET last == send.acts[Len(send.acts)]
            controls == {e \in send.dump : SendMarked(e) /\ BesideField(e)}
        IN  /\ controls # {} => (last.kind = "tap" /\ \E e \in controls : Hits(last.xy, e))
            /\ last.kind = "key" => \A e \in send.dump : ~SendMarked(e)

\* C38: awaiting_email and awaiting_password are never both true in login_flow_state
C38_OneStageAwaited ==
    ~(login_flow_state.awaiting_email /\ login_flow_state.awaiting_password)

\* C39: login_flow_state.email_entered is false whenever the login subflow is about to be
\* invoked (the authenticate node is the next to run), so that its email step is never
\* skipped because of a flag left over from an earlier login attempt
C39_EmailFlagFreshAtLogin ==
    (pc = "authenticate" /\ steps < RecursionLimit) => ~login_flow_state.email_entered

\* C40: once the voice login flow has finished (active is false after the password was
\* entered), login_flow_state no longer holds the password
C40_PasswordDroppedAfterLogin ==
    (pc = "returned" /\ call.result = "password_entered" /\ ~login_flow_state.active)
        => login_flow_state.password = NoWords

====
